---------------------------- MODULE Spec2Model ----------------------------
(***************************************************************************)
(* Verification model of the Geometry-Wars style shooter of                *)
(* limax84/geometric-life: the player's power-up ledger, the snake enemy,  *)
(* the wave manager and the per-frame update of the game engine.           *)
(*                                                                         *)
(* Units.  Time is counted in ticks of 50 ms (20 ticks = 1 s), so that     *)
(* every delay of the program is a whole number; lengths are world units   *)
(* and radii are given in tenths of a world unit where the program uses    *)
(* fractional hit boxes.                                                   *)
(***************************************************************************)
EXTENDS Integers, Sequences, FiniteSets, TLC

VARIABLES
  (* PlayerPowerUpState (Bullet.ts 293-370) *)
  activePowerUps,      \* Map type -> [time, isPerpetual]
  perpetualPowerUps,   \* Set of types
  (* observer of the calls made on the ledger *)
  grantLog,            \* per type: durations granted and time elapsed on the live entry
  (* one Enemy object driven through its methods (EnemyBullet.ts 388-1039) *)
  enemy,
  enemyLog,            \* observer: successful destroySegment calls, updates, last return value
  (* GameEngine (GameEngine.ts) and the objects it owns; in the engine the
     ledger above is player.powerUpState *)
  engine,              \* gameState, score, lives, multiplier, timers, counters, menu indices
  player,              \* position, velocity, bombCount, isAlive
  bullets,             \* Bullet[]
  enemies,             \* Enemy[]
  enemyBullets,        \* EnemyBullet[]
  powerUps,            \* PowerUp[]
  waveManager,         \* WaveState, spawnTimer, currentConfig
  frameLog,            \* observer: what the last frame did
  frames,              \* observer: frames run so far
  loop                 \* the engine's loop fields and the callbacks it has pending

ledgerVars == <<activePowerUps, perpetualPowerUps, grantLog>>
enemyVars == <<enemy, enemyLog>>
engineVars ==
  <<engine, player, bullets, enemies, enemyBullets, powerUps, waveManager,
    frameLog, frames, loop>>

\* what a call on the ledger object, or on the Enemy object, leaves alone
notLedgerVars == <<enemy, enemyLog, engineVars>>
notEnemyVars == <<activePowerUps, perpetualPowerUps, grantLog, engineVars>>

vars == <<activePowerUps, perpetualPowerUps, grantLog, enemy, enemyLog, engineVars>>

-----------------------------------------------------------------------------
(* Bounds of the model *)

MaxDuration == 2     \* durations granted through the ledger API: 0..MaxDuration
MaxDt == 2           \* update steps of the ledger API: 1..MaxDt
MaxGrants == 2       \* temporary grants stacked on one live entry
MaxUpdates == 2      \* update calls made on the stand-alone Enemy object
MaxWaveTicks == 260  \* playing time of the first-wave runs: the countdown and 15 spawns
MaxFrames == 3       \* frames run from a scene of the arena
MaxGames == 3        \* games counted in the statistics when the page calls reset()
MaxCacheFrames == 4  \* frames run from a scene of the secret cache
MaxManagerTicks == 210  \* update time given to the stand-alone WaveManager
MaxSplitFrames == 2  \* frames run from a scene with a splitter
MaxHits == 52        \* takeDamage calls made on the stand-alone Enemy object
MaxPauseFrames == 3  \* frames run with the pause key and the menus
MaxLoopFrames == 32  \* frames run by the loop between start() and stop()
MaxStarts == 2       \* start() calls made by the page
MaxPolls == 3        \* times autoDetectGraphicsQuality sets its timeout again
MaxKeyFrames == 3    \* frames run between the key events
MaxPresses == 3      \* keys pressed (going from released to pressed)
MaxDecayFrames == 5  \* frames run from a scene with the multiplier about to decay
MaxBossFrames == 7    \* frames run from a scene with a boss about to fire
MaxBossTicks == 100  \* update time given to the stand-alone boss: two teleports, one fan
MaxBombFrames == 2   \* frames run from a scene of the bomb charges
MaxFireTime == 200   \* milliseconds the clock of the fire calls runs
MaxWaveNumber == 40  \* wave numbers whose configuration is examined: 0..MaxWaveNumber

-----------------------------------------------------------------------------
(* Small helpers *)

Min(a, b) == IF a < b THEN a ELSE b
Max(a, b) == IF a > b THEN a ELSE b

\* Map.set on a function used as a JS Map
MapSet(m, k, v) == [x \in (DOMAIN m) \cup {k} |-> IF x = k THEN v ELSE m[x]]
EmptyMap == [x \in {} |-> 0]

-----------------------------------------------------------------------------
(* PlayerPowerUpState *)

PowerUpTypes ==
  {"shield", "rapidFire", "spreadShot", "speedBoost", "piercing", "doubleShot",
   "extraLife", "bomb"}

\* `time: Infinity` of a perpetual entry
Infinity == 1000000

NewLedger == [active |-> EmptyMap, perpetual |-> {}]

\* current?.time || 0
TimeOrZero(L, type) ==
  IF type \in DOMAIN L.active THEN L.active[type].time ELSE 0

\* the temporary branch of addPowerUp, a bug variant: the timer is replaced
AddTemporaryReplace(L, type, duration) ==
  [L EXCEPT !.active = MapSet(L.active, type, [time |-> duration, isPerpetual |-> FALSE])]

\* the temporary branch of addPowerUp: stack on the current remaining time
AddTemporary(L, type, duration) ==
  [L EXCEPT !.active =
     MapSet(L.active, type,
            [time |-> TimeOrZero(L, type) + duration, isPerpetual |-> FALSE])]

\* addPowerUp, a bug variant: the perpetual check before a temporary grant is missing
AddPowerUpNoPerpetualCheck(L, type, duration, isPerpetual) ==
  IF duration = 0 /\ ~isPerpetual THEN L
  ELSE IF isPerpetual
       THEN [active |-> MapSet(L.active, type, [time |-> Infinity, isPerpetual |-> TRUE]),
             perpetual |-> L.perpetual \cup {type}]
       ELSE AddTemporary(L, type, duration)

AddPowerUp(L, type, duration, isPerpetual) ==
  IF duration = 0 /\ ~isPerpetual THEN L
  ELSE IF isPerpetual
       THEN [active |-> MapSet(L.active, type, [time |-> Infinity, isPerpetual |-> TRUE]),
             perpetual |-> L.perpetual \cup {type}]
       ELSE IF type \in L.perpetual THEN L
            ELSE AddTemporary(L, type, duration)

\* update(deltaTime), a bug variant: an entry is deleted below 0 only
LedgerUpdateKeepsZero(L, dt) ==
  LET expired == {t \in DOMAIN L.active :
                    ~L.active[t].isPerpetual /\ L.active[t].time - dt < 0}
  IN [L EXCEPT !.active =
        [t \in (DOMAIN L.active) \ expired |->
           IF L.active[t].isPerpetual THEN L.active[t]
           ELSE [time |-> L.active[t].time - dt, isPerpetual |-> FALSE]]]

\* update(deltaTime): perpetual entries are skipped, the others decremented
\* and deleted at <= 0
LedgerUpdate(L, dt) ==
  LET expired == {t \in DOMAIN L.active :
                    ~L.active[t].isPerpetual /\ L.active[t].time - dt <= 0}
  IN [L EXCEPT !.active =
        [t \in (DOMAIN L.active) \ expired |->
           IF L.active[t].isPerpetual THEN L.active[t]
           ELSE [time |-> L.active[t].time - dt, isPerpetual |-> FALSE]]]

IsActive(L, type) == type \in DOMAIN L.active \/ type \in L.perpetual

GetRemainingTime(L, type) == TimeOrZero(L, type)

IsPerpetual(L, type) == type \in L.perpetual

HasShield(L) == IsActive(L, "shield")
HasPiercing(L) == IsActive(L, "piercing")

ClearTemporary(L) ==
  [L EXCEPT !.active =
     [t \in {u \in DOMAIN L.active : L.active[u].isPerpetual} |-> L.active[t]]]

ClearLedger(L) == [active |-> EmptyMap, perpetual |-> {}]

\* the ledger object held in the two variables
Ledger == [active |-> activePowerUps, perpetual |-> perpetualPowerUps]

SetLedger(L) ==
  /\ activePowerUps' = L.active
  /\ perpetualPowerUps' = L.perpetual

-----------------------------------------------------------------------------
(* Geometry: points are records [x, y] of world units *)

ARENA_WIDTH == 2000
ARENA_HEIGHT == 1400

Pt(x, y) == [x |-> x, y |-> y]

Abs(n) == IF n < 0 THEN -n ELSE n
Sign(n) == IF n < 0 THEN -1 ELSE IF n > 0 THEN 1 ELSE 0

\* clamp(value, min, max)
Clamp(v, lo, hi) == Max(lo, Min(hi, v))

\* squared distance between two points
Dist2(p, q) == (p.x - q.x) * (p.x - q.x) + (p.y - q.y) * (p.y - q.y)

\* distance(p, q) < r, with r given in tenths of a world unit
CloserThan(p, q, r10) == 100 * Dist2(p, q) < r10 * r10

-----------------------------------------------------------------------------
(* Enemy *)

EnemyTypes ==
  {"wanderer", "chaser", "shooter", "diamond", "dodger", "splitter",
   "splitter_mini", "snake", "boss_hexagon"}

ENEMY_POINTS ==
  [wanderer |-> 100, chaser |-> 150, shooter |-> 200, diamond |-> 120,
   dodger |-> 250, splitter |-> 180, splitter_mini |-> 60, snake |-> 300,
   boss_hexagon |-> 5000]

ENEMY_SIZE ==
  [wanderer |-> 15, chaser |-> 12, shooter |-> 18, diamond |-> 14,
   dodger |-> 16, splitter |-> 22, splitter_mini |-> 10, snake |-> 18,
   boss_hexagon |-> 50]

ENEMY_HEALTH ==
  [wanderer |-> 1, chaser |-> 1, shooter |-> 2, diamond |-> 1,
   dodger |-> 2, splitter |-> 2, splitter_mini |-> 1, snake |-> 4,
   boss_hexagon |-> 50]

SEGMENT_COUNT == 9
SEGMENT_SPACING == 18

\* the unit of time of the engine model: a tick of 50 ms
TicksPerSecond == 20

\* the timers of a boss, in ticks
BOSS_SHOOT_INTERVAL == (3 * TicksPerSecond) \div 2
TELEPORT_INTERVAL == 3 * TicksPerSecond
CHARGE_TIME == TicksPerSecond

\* new Enemy(x, y, type, id, speedMultiplier): the fields the game logic reads
NewEnemy(x, y, type, id) ==
  [id |-> id, type |-> type, pos |-> Pt(x, y), isAlive |-> TRUE,
   health |-> ENEMY_HEALTH[type], pendingSplits |-> <<>>,
   shootTimer |-> 0, pendingBullets |-> <<>>,
   teleportTimer |-> IF type = "boss_hexagon" THEN CHARGE_TIME ELSE 0,
   chargeTimer |-> IF type = "boss_hexagon" THEN CHARGE_TIME ELSE 0,
   isCharging |-> type = "boss_hexagon",
   segments |-> IF type = "snake"
                THEN [i \in 1..SEGMENT_COUNT |-> Pt(x - i * SEGMENT_SPACING, y)]
                ELSE <<>>]

GetSize(e) == ENEMY_SIZE[e.type]
GetPoints(e) == ENEMY_POINTS[e.type]
Kill(e) == [e EXCEPT !.isAlive = FALSE]
GetSegmentCount(e) == Len(e.segments)

\* Array.splice(index, 1), index counted from 0
Splice(seq, index) ==
  [i \in 1..(Len(seq) - 1) |-> IF i <= index THEN seq[i] ELSE seq[i + 1]]

\* destroySegment(index): the enemy after the call and the value returned
DestroySegment(e, index) ==
  IF e.type # "snake" \/ index < 0 \/ index >= Len(e.segments)
  THEN [enemy |-> e, ok |-> FALSE]
  ELSE [enemy |-> [e EXCEPT !.segments = Splice(e.segments, index)], ok |-> TRUE]

\* one segment pulled towards the position ahead of it once the gap exceeds
\* the spacing (updateSnake 642-653).  The model keeps a snake on one
\* horizontal line (its head is only displaced along x), where the pull is
\* exact in integers.
FollowOne(target, segment) ==
  LET dist == Abs(target.x - segment.x)
  IN IF dist > SEGMENT_SPACING
     THEN [segment EXCEPT !.x = @ + Sign(target.x - segment.x) * (dist - SEGMENT_SPACING)]
     ELSE segment

\* the loop over the segments: segment i follows the already moved segment i-1,
\* the first one follows the head
RECURSIVE FollowFrom(_, _, _)
FollowFrom(target, segments, i) ==
  IF i > Len(segments) THEN segments
  ELSE LET moved == FollowOne(target, segments[i])
       IN FollowFrom(moved, [segments EXCEPT ![i] = moved], i + 1)

\* updateSnake, a bug variant: the empty-body check is missing
UpdateSnakeNoDeath(e) ==
  IF Len(e.segments) = 0 THEN e
  ELSE [e EXCEPT !.segments = FollowFrom(e.pos, e.segments, 1)]

\* updateSnake: a snake with no segment left dies, otherwise the body follows
UpdateSnake(e) ==
  IF Len(e.segments) = 0 THEN Kill(e)
  ELSE [e EXCEPT !.segments = FollowFrom(e.pos, e.segments, 1)]

\* bounceOffWalls: the position is kept inside the arena, one size from the walls
BounceOffWalls(e) ==
  [e EXCEPT !.pos = Pt(Clamp(e.pos.x, GetSize(e), ARENA_WIDTH - GetSize(e)),
                       Clamp(e.pos.y, GetSize(e), ARENA_HEIGHT - GetSize(e)))]

\* update(deltaTime, playerPosition, bulletPositions).  The steering of each
\* type is abstracted to its outcome: `to` is the position velocity * deltaTime
\* takes the enemy to (a boss is displaced by its teleport only).
EnemyUpdate(e, to) ==
  IF ~e.isAlive THEN e
  ELSE LET steered == IF e.type = "snake" THEN UpdateSnake(e) ELSE e
       IN IF e.type = "boss_hexagon" THEN steered
          ELSE BounceOffWalls([steered EXCEPT !.pos = to])

\* the three positions a dying splitter queues, 25 away at thirds of a turn
\* (the random phase of the first angle is left out)
SplitOffsets == <<Pt(25, 0), Pt(-12, 22), Pt(-12, -22)>>

\* takeDamage, a bug variant: a splitter_mini splits too
TakeDamageMinisSplit(e, amount) ==
  LET health == e.health - amount
      splits == IF e.type \in {"splitter", "splitter_mini"}
                THEN [i \in 1..3 |-> Pt(e.pos.x + SplitOffsets[i].x, e.pos.y + SplitOffsets[i].y)]
                ELSE <<>>
  IN IF health <= 0
     THEN [enemy |-> [e EXCEPT !.health = health, !.isAlive = FALSE,
                               !.pendingSplits = @ \o splits],
           killed |-> TRUE]
     ELSE [enemy |-> [e EXCEPT !.health = health], killed |-> FALSE]

\* takeDamage, a bug variant: the enemy dies one hit late
TakeDamageBelowZero(e, amount) ==
  LET health == e.health - amount
      splits == IF e.type = "splitter"
                THEN [i \in 1..3 |-> Pt(e.pos.x + SplitOffsets[i].x, e.pos.y + SplitOffsets[i].y)]
                ELSE <<>>
  IN IF health < 0
     THEN [enemy |-> [e EXCEPT !.health = health, !.isAlive = FALSE,
                               !.pendingSplits = @ \o splits],
           killed |-> TRUE]
     ELSE [enemy |-> [e EXCEPT !.health = health], killed |-> FALSE]

\* takeDamage(amount): the enemy after the call and the value returned
TakeDamage(e, amount) ==
  LET health == e.health - amount
      splits == IF e.type = "splitter"
                THEN [i \in 1..3 |-> Pt(e.pos.x + SplitOffsets[i].x, e.pos.y + SplitOffsets[i].y)]
                ELSE <<>>
  IN IF health <= 0
     THEN [enemy |-> [e EXCEPT !.health = health, !.isAlive = FALSE,
                               !.pendingSplits = @ \o splits],
           killed |-> TRUE]
     ELSE [enemy |-> [e EXCEPT !.health = health], killed |-> FALSE]

-----------------------------------------------------------------------------
(* Time: one tick is 50 ms.  The frame loop caps deltaTime at 0.1 s. *)

DT_CAP == 2

-----------------------------------------------------------------------------
(* Bullet, EnemyBullet, PowerUp, Player *)

BULLET_SIZE == 4
FIRE_RATE_MS == 100      \* GAME_CONFIG.FIRE_RATE, 0.1 s
RAPID_FIRE_MS == 40      \* FIRE_RATE times the rapid fire multiplier 0.4
BULLET_SPEED == 800 \div TicksPerSecond
BULLET_LIFETIME == 2 * TicksPerSecond
ENEMY_BULLET_SIZE == 5
ENEMY_BULLET_SPEED == 250 \div TicksPerSecond    \* 12.5 a tick, kept whole
BOSS_BULLET_SPEED == 280 \div TicksPerSecond
FAN_SHOTS == 5
FAN_COS == <<1000, 866, 500>>      \* of 0, 30 and 60 degrees, in thousandths
FAN_SIN == <<0, 500, 866>>
TELEPORT_MARGIN == 150
ENEMY_BULLET_LIFETIME == 4 * TicksPerSecond
PLAYER_SIZE == 20
MAX_BOMBS == 3
POWERUP_SIZE == 12
POWERUP_SIZE_PERPETUAL == 16
POWERUP_LIFETIME == 15 * TicksPerSecond
POWERUP_LIFETIME_PERPETUAL == 20 * TicksPerSecond

POWERUP_DURATION ==
  [shield |-> 10 * TicksPerSecond, rapidFire |-> 8 * TicksPerSecond,
   spreadShot |-> 6 * TicksPerSecond, speedBoost |-> 7 * TicksPerSecond,
   piercing |-> 10 * TicksPerSecond, doubleShot |-> 8 * TicksPerSecond,
   extraLife |-> 0, bomb |-> 0]

\* POWERUP_CONFIGS, a bug variant: every effect has a perpetual version
CanAllBePerpetual == [t \in PowerUpTypes |-> TRUE]

CAN_BE_PERPETUAL ==
  [shield |-> FALSE, rapidFire |-> TRUE, spreadShot |-> TRUE, speedBoost |-> TRUE,
   piercing |-> TRUE, doubleShot |-> TRUE, extraLife |-> FALSE, bomb |-> FALSE]

Centre == Pt(ARENA_WIDTH \div 2, ARENA_HEIGHT \div 2)

InArena(p) == p.x >= 0 /\ p.x <= ARENA_WIDTH /\ p.y >= 0 /\ p.y <= ARENA_HEIGHT

Plus(p, v, dt) == Pt(p.x + v.x * dt, p.y + v.y * dt)

\* new Bullet(x, y, angle, id): velocity is the displacement of one tick
NewBullet(pos, vel) == [pos |-> pos, vel |-> vel, age |-> 0, isAlive |-> TRUE, hitBorder |-> FALSE]

\* update, a bug variant: the end of the lifetime raises the border flag too
ProjectileUpdateFlagsAge(b, dt, lifetime) ==
  IF ~b.isAlive THEN b
  ELSE LET pos == Plus(b.pos, b.vel, dt)
           age == b.age + dt
       IN [b EXCEPT !.pos = pos, !.age = age,
                    !.isAlive = age < lifetime /\ InArena(pos),
                    !.hitBorder = ~(age < lifetime /\ InArena(pos))]

\* Bullet.update and EnemyBullet.update: move, age, die of age or at the border
ProjectileUpdate(b, dt, lifetime) ==
  IF ~b.isAlive THEN b
  ELSE LET pos == Plus(b.pos, b.vel, dt)
           age == b.age + dt
       IN [b EXCEPT !.pos = pos, !.age = age,
                    !.isAlive = age < lifetime /\ InArena(pos),
                    !.hitBorder = ~InArena(pos)]

BulletUpdate(b, dt) == ProjectileUpdate(b, dt, BULLET_LIFETIME)
EnemyBulletUpdate(b, dt) == ProjectileUpdate(b, dt, ENEMY_BULLET_LIFETIME)

\* new PowerUp(x, y, type, id, isPerpetual); its slow drift is left out
NewPowerUp(pos, type, isPerpetual) ==
  [pos |-> pos, type |-> type, isPerpetual |-> isPerpetual /\ CAN_BE_PERPETUAL[type],
   age |-> 0, isAlive |-> TRUE]

PowerUpSize(p) == IF p.isPerpetual THEN POWERUP_SIZE_PERPETUAL ELSE POWERUP_SIZE
PowerUpLifetime(p) == IF p.isPerpetual THEN POWERUP_LIFETIME_PERPETUAL ELSE POWERUP_LIFETIME

PowerUpUpdate(p, dt) ==
  IF ~p.isAlive THEN p
  ELSE [p EXCEPT !.age = @ + dt, !.isAlive = p.age + dt < PowerUpLifetime(p)]

\* new Player(x, y); lastFireTime, in milliseconds, is followed where fire() is
\* called with its time
NewPlayer(pos) ==
  [pos |-> pos, vel |-> Pt(0, 0), bombCount |-> 0, isAlive |-> TRUE, lastFireTime |-> 0,
   controlMode |-> "absolute"]

\* Player.toggleControlMode
ToggleControlMode(p) ==
  [p EXCEPT !.controlMode = IF @ = "relative" THEN "absolute" ELSE "relative"]

HasRapidFire(L) == "rapidFire" \in DOMAIN L.active \/ "rapidFire" \in L.perpetual
HasSpreadShot(L) == "spreadShot" \in DOMAIN L.active \/ "spreadShot" \in L.perpetual
HasDoubleShot(L) == "doubleShot" \in DOMAIN L.active \/ "doubleShot" \in L.perpetual

\* Player.canFire(currentTime), times in whole milliseconds.  fireRate * 1000
\* is computed in doubles: 0.1 * 1 * 1000 is 100, and 0.1 * 0.4 * 1000 is
\* 40.00000000000001, which a difference of whole milliseconds reaches only
\* from 41
PlayerCanFire(p, L, currentTime) ==
  IF HasRapidFire(L) THEN currentTime - p.lastFireTime > RAPID_FIRE_MS
  ELSE currentTime - p.lastFireTime >= FIRE_RATE_MS

\* Player.fire(currentTime): the player after the call, whether spawns are
\* returned (null otherwise), and the spawns, one record per bullet: its angle
\* as a multiple of spreadAngle off the aim, and its side of the barrel, 0
\* for a single bullet
PlayerFire(p, L, currentTime) ==
  IF ~PlayerCanFire(p, L, currentTime) THEN [player |-> p, fired |-> FALSE, spawns |-> <<>>]
  ELSE LET angles == IF HasSpreadShot(L) THEN <<0 - 1, 0, 1>> ELSE <<0>>
           Both(a) == <<[angle |-> a, side |-> 1], [angle |-> a, side |-> 0 - 1]>>
           One(a) == <<[angle |-> a, side |-> 0]>>
           spawns == IF HasDoubleShot(L)
                     THEN (IF HasSpreadShot(L) THEN Both(angles[1]) \o Both(angles[2]) \o Both(angles[3])
                           ELSE Both(0))
                     ELSE [k \in 1..Len(angles) |-> One(angles[k])[1]]
       IN [player |-> [p EXCEPT !.lastFireTime = currentTime], fired |-> TRUE,
           spawns |-> spawns]

\* Player.addBomb, a bug variant: the maximum is not looked at
AddBombNoMax(p) == [p EXCEPT !.bombCount = @ + 1]

\* Player.addBomb / Player.useBomb: the player after the call, and the value
\* returned (CanUseBomb is what useBomb returns)
AddBomb(p) == IF p.bombCount < MAX_BOMBS THEN [p EXCEPT !.bombCount = @ + 1] ELSE p
AddBombReturns(p) == p.bombCount < MAX_BOMBS
CanUseBomb(p) == p.bombCount > 0
PlayerUseBomb(p) == IF p.bombCount > 0 THEN [p EXCEPT !.bombCount = @ - 1] ELSE p

\* keep only the live elements of a collection: Array.filter(x => x.isAlive)
RECURSIVE FilterAlive(_)
FilterAlive(seq) ==
  IF seq = <<>> THEN <<>>
  ELSE IF Head(seq).isAlive THEN <<Head(seq)>> \o FilterAlive(Tail(seq))
       ELSE FilterAlive(Tail(seq))

-----------------------------------------------------------------------------
(* WaveManager *)

\* the boss test, a bug variant: wave 0 counts as a boss wave
IsBossWaveFromZero(n) == n % 10 = 0

IsBossWave(n) == n % 10 = 0 /\ n > 0

WaveEnemyCount(n) == IF IsBossWave(n) THEN n \div 10 ELSE 15 + (n - 1) * 15

WaveEnemyTypes(n) ==
  IF IsBossWave(n) THEN <<"boss_hexagon">>
  ELSE <<"wanderer">>
       \o (IF n >= 2 THEN <<"chaser">> ELSE <<>>)
       \o (IF n >= 3 THEN <<"diamond">> ELSE <<>>)
       \o (IF n >= 4 THEN <<"shooter">> ELSE <<>>)
       \o (IF n >= 5 THEN <<"dodger">> ELSE <<>>)
       \o (IF n >= 6 THEN <<"splitter">> ELSE <<>>)
       \o (IF n >= 7 THEN <<"snake">> ELSE <<>>)

\* spawnDelay in ticks: 2 s for a boss wave, else max(0.15, 0.7 - n * 0.05) s
WaveSpawnDelay(n) == IF IsBossWave(n) THEN 2 * TicksPerSecond ELSE Max(3, 14 - n)

\* waveDelay in ticks: 2 + min(n * 0.3, 3) s
WaveDelay(n) == 2 * TicksPerSecond + Min(n * 6, 3 * TicksPerSecond)

\* getWaveConfig(waveNumber): the fields the game logic reads
GetWaveConfig(n) ==
  [waveNumber |-> n, enemyCount |-> WaveEnemyCount(n), enemyTypes |-> WaveEnemyTypes(n),
   spawnDelay |-> WaveSpawnDelay(n), waveDelay |-> WaveDelay(n)]

\* the state after new WaveManager() (first countdown 2 s) and after reset() (3 s)
WaveState(nextWaveTime) ==
  [currentWave |-> 0, enemiesRemaining |-> 0, enemiesSpawned |-> 0, isActive |-> FALSE,
   betweenWaves |-> TRUE, nextWaveTime |-> nextWaveTime, spawnTimer |-> 0,
   hasConfig |-> FALSE]

NewWaveManager == WaveState(2 * TicksPerSecond)
WaveReset == WaveState(3 * TicksPerSecond)

\* currentConfig: the configuration of the current wave while one is set
CurrentConfig(W) == GetWaveConfig(W.currentWave)

StartNextWave(W) ==
  [W EXCEPT !.currentWave = @ + 1,
            !.enemiesRemaining = WaveEnemyCount(W.currentWave + 1),
            !.enemiesSpawned = 0,
            !.isActive = TRUE,
            !.betweenWaves = FALSE,
            !.spawnTimer = 0,
            !.hasConfig = TRUE]

\* getNextEnemyToSpawn: the weighted random draw is the choice `type` among the
\* wave's types; the result is the manager after the call and the type emitted
GetNextEnemyToSpawn(W, type) ==
  IF ~W.hasConfig \/ W.enemiesSpawned >= CurrentConfig(W).enemyCount
  THEN [wave |-> W, emit |-> "none"]
  ELSE [wave |-> [W EXCEPT !.enemiesSpawned = @ + 1,
                           !.enemiesRemaining = CurrentConfig(W).enemyCount - (W.enemiesSpawned + 1)],
        emit |-> type]

EndWave(W) ==
  [W EXCEPT !.isActive = FALSE, !.betweenWaves = TRUE,
            !.nextWaveTime = CurrentConfig(W).waveDelay, !.hasConfig = FALSE]

\* update, a bug variant: the wave ends as soon as everything is spawned
WaveUpdateEndsEarly(W, dt, currentEnemyCount, type) ==
  IF W.betweenWaves
  THEN LET W1 == [W EXCEPT !.nextWaveTime = @ - dt]
       IN IF W1.nextWaveTime <= 0
          THEN GetNextEnemyToSpawn(StartNextWave(W1), type)
          ELSE [wave |-> W1, emit |-> "none"]
  ELSE IF W.isActive /\ W.hasConfig
  THEN IF W.enemiesSpawned >= CurrentConfig(W).enemyCount
       THEN [wave |-> EndWave(W), emit |-> "none"]
       ELSE LET W1 == [W EXCEPT !.spawnTimer = @ + dt]
            IN IF W1.spawnTimer >= CurrentConfig(W).spawnDelay
               THEN GetNextEnemyToSpawn([W1 EXCEPT !.spawnTimer = 0], type)
               ELSE [wave |-> W1, emit |-> "none"]
  ELSE [wave |-> W, emit |-> "none"]

\* update(deltaTime, currentEnemyCount)
WaveUpdate(W, dt, currentEnemyCount, type) ==
  IF W.betweenWaves
  THEN LET W1 == [W EXCEPT !.nextWaveTime = @ - dt]
       IN IF W1.nextWaveTime <= 0
          THEN GetNextEnemyToSpawn(StartNextWave(W1), type)
          ELSE [wave |-> W1, emit |-> "none"]
  ELSE IF W.isActive /\ W.hasConfig
  THEN IF W.enemiesSpawned >= CurrentConfig(W).enemyCount
       THEN [wave |-> IF currentEnemyCount = 0 THEN EndWave(W) ELSE W, emit |-> "none"]
       ELSE LET W1 == [W EXCEPT !.spawnTimer = @ + dt]
            IN IF W1.spawnTimer >= CurrentConfig(W).spawnDelay
               THEN GetNextEnemyToSpawn([W1 EXCEPT !.spawnTimer = 0], type)
               ELSE [wave |-> W1, emit |-> "none"]
  ELSE [wave |-> W, emit |-> "none"]

-----------------------------------------------------------------------------
(* GameEngine: state *)

INVINCIBILITY_DURATION == 2 * TicksPerSecond
maxMultiplier == 100
MULTIPLIER_DECAY_TIME == 3 * TicksPerSecond
BOMB_RADIUS == 2500
START_LIVES == 3
MAX_LIVES == 5
SPAWN_MARGIN == 50
SPAWN_MIN_DISTANCE == 300
SECRET_CACHE_END_X == 150
SECRET_CACHE_DEPTH == 30

\* what the observer of a frame records, emptied when a frame starts
NoFrame ==
  [played |-> FALSE, hits |-> 0, kills |-> <<>>, spawn |-> "none",
   collided |-> FALSE, invincibility |-> 0, shield |-> FALSE,
   bulletEnemy |-> <<>>, playerEnemy |-> <<>>, playerEnemyBullet |-> <<>>,
   inReach |-> <<>>, bombsAtHit |-> 0, activeAtHit |-> {}, reset |-> FALSE,
   bomb |-> [pressed |-> FALSE, used |-> FALSE, countBefore |-> 0, count |-> 0, targets |-> <<>>,
             bulletsBefore |-> 0, enemiesLeft |-> 0, bulletsLeft |-> 0,
             scoreBefore |-> 0, score |-> 0],
   cache |-> [bombs |-> 0, found |-> FALSE, granted |-> 0], splits |-> <<>>,
   check |-> "none", call |-> [op |-> "none", returned |-> "none"], piercing |-> FALSE,
   perpetualAtHit |-> {},
   started |-> "none", keys |-> [pause |-> FALSE, enter |-> FALSE, firing |-> FALSE],
   selected |-> "none", fans |-> 0, enemyShots |-> 0,
   down |-> {}, fresh |-> {}, edges |-> {}, seen |-> {}, presses |-> 0, toggled |-> 0,
   idle |-> 0, decayed |-> FALSE, idleAtDecay |-> 0, multAfterDecay |-> 0,
   killed |-> 0, timePlayed |-> 0,
   updated |-> <<>>, enemyUpdated |-> <<>>, collected |-> <<>>, collectedEver |-> <<>>,
   drops |-> <<>>,
   atPass |-> [bullets |-> <<>>, enemyBullets |-> <<>>],
   before |-> [lives |-> 0, score |-> 0, scoreMultiplier |-> 0, bombCount |-> 0,
               enemyIdCounter |-> 0]]

\* the statistics of a new save (StorageManager): nothing played yet
TOP_SCORES == 10
NewStorage ==
  [highScore |-> 0, topScores |-> <<>>, totalEnemiesKilled |-> 0, totalTimePlayed |-> 0,
   totalGamesPlayed |-> 0]

\* StorageManager.updateHighScore
UpdateHighScore(S, score) == IF score > S.highScore THEN [S EXCEPT !.highScore = score] ELSE S

\* scores.push(score); scores.sort(descending)
InsertScore(scores, score) ==
  LET above == SelectSeq(scores, LAMBDA x : x >= score)
      below == SelectSeq(scores, LAMBDA x : x < score)
  IN above \o <<score>> \o below

\* StorageManager.addScore: the 10 best, in descending order
AddScore(S, score) ==
  IF score <= 0 THEN S
  ELSE [S EXCEPT !.topScores = SubSeq(InsertScore(@, score), 1,
                                      Min(TOP_SCORES, Len(@) + 1))]

\* StorageManager.addEnemiesKilled, addTimePlayed, addGamePlayed
AddEnemiesKilled(S, count) == [S EXCEPT !.totalEnemiesKilled = @ + count]
AddTimePlayed(S, time) == [S EXCEPT !.totalTimePlayed = @ + time]
AddGamePlayed(S) == [S EXCEPT !.totalGamesPlayed = @ + 1]

\* addTimePlayed(gameTime); addEnemiesKilled(enemiesKilledThisGame), as stop(),
\* reset() and the MAIN MENU selection of the pause menu call them
SaveStatistics(E) ==
  [E EXCEPT !.storage = AddEnemiesKilled(AddTimePlayed(@, E.gameTime),
                                         E.enemiesKilledThisGame)]

\* a new InputManager: the keys held and the keys just pressed
NewInputManager == [keys |-> {}, justPressedKeys |-> {}]

\* handleKeyDown, a bug variant: every keydown event is an edge
HandleKeyDownAlways(I, key) ==
  [I EXCEPT !.justPressedKeys = @ \cup {key}, !.keys = @ \cup {key}]

\* InputManager.handleKeyDown (the key already in lower case)
HandleKeyDown(I, key) ==
  [I EXCEPT !.justPressedKeys = IF key \in I.keys THEN @ ELSE @ \cup {key},
            !.keys = @ \cup {key}]

\* InputManager.handleKeyUp
HandleKeyUp(I, key) == [I EXCEPT !.keys = @ \ {key}]

\* InputManager.clearJustPressed
ClearJustPressed(I) == [I EXCEPT !.justPressedKeys = {}]

\* the fields of a new GameEngine
NewEngine ==
  [gameState |-> "menu", score |-> 0, lives |-> START_LIVES,
   invincibilityTimer |-> 0, gameTime |-> 0, enemiesKilledThisGame |-> 0,
   scoreMultiplier |-> 1, multiplierDecayTimer |-> 0, enemyIdCounter |-> 0,
   secretCacheFound |-> FALSE, pauseMenuIndex |-> 0, gameOverMenuIndex |-> 0,
   previousState |-> "menu", input |-> NewInputManager,
   highScore |-> NewStorage.highScore, storage |-> NewStorage]

\* the loop fields of a new GameEngine (isRunning, animationFrameId, the length
\* of fpsHistory, performanceTestDone, autoDetectQuality as read from the
\* storage), and what the page and the browser hold for it: the start() calls
\* suspended at their await, the animation frames requested and not yet run
\* or cancelled, the autoDetectGraphicsQuality timeouts pending.  Observers:
\* the start() calls made, stop() has returned and start() was not called
\* since, the frames run and the timeouts set again in that condition.
NewLoop(auto) ==
  [isRunning |-> FALSE, animationFrameId |-> 0, fpsHistory |-> 0,
   performanceTestDone |-> FALSE, autoDetectQuality |-> auto,
   awaiting |-> 0, requested |-> {}, lastRequest |-> 0, timeouts |-> 0,
   starts |-> 0, polls |-> 0, stopped |-> FALSE, framesAfterStop |-> 0,
   pollsAfterStop |-> 0]

\* the whole game as one value: the engine, the objects it owns and the observer
NewGame ==
  [engine |-> NewEngine, player |-> NewPlayer(Centre), ledger |-> NewLedger,
   bullets |-> <<>>, enemies |-> <<>>, enemyBullets |-> <<>>, powerUps |-> <<>>,
   wave |-> NewWaveManager, log |-> NoFrame]

Game ==
  [engine |-> engine, player |-> player, ledger |-> Ledger, bullets |-> bullets,
   enemies |-> enemies, enemyBullets |-> enemyBullets, powerUps |-> powerUps,
   wave |-> waveManager, log |-> frameLog]

GameIs(G) ==
  /\ engine = G.engine
  /\ player = G.player
  /\ activePowerUps = G.ledger.active
  /\ perpetualPowerUps = G.ledger.perpetual
  /\ bullets = G.bullets
  /\ enemies = G.enemies
  /\ enemyBullets = G.enemyBullets
  /\ powerUps = G.powerUps
  /\ waveManager = G.wave
  /\ frameLog = G.log

SetGame(G) ==
  /\ engine' = G.engine
  /\ player' = G.player
  /\ SetLedger(G.ledger)
  /\ bullets' = G.bullets
  /\ enemies' = G.enemies
  /\ enemyBullets' = G.enemyBullets
  /\ powerUps' = G.powerUps
  /\ waveManager' = G.wave
  /\ frameLog' = G.log

\* the engine as constructed, before any frame
EngineIdle ==
  /\ engine = NewEngine
  /\ player = NewPlayer(Centre)
  /\ bullets = <<>>
  /\ enemies = <<>>
  /\ enemyBullets = <<>>
  /\ powerUps = <<>>
  /\ waveManager = NewWaveManager
  /\ frameLog = NoFrame
  /\ frames = 0
  /\ loop = NewLoop(TRUE)

-----------------------------------------------------------------------------
(* GameEngine: multiplier, rewards, player hit, new game *)

IncreaseMultiplierNoCap(G) ==
  [G EXCEPT !.engine.scoreMultiplier = @ + 1,
            !.engine.multiplierDecayTimer = MULTIPLIER_DECAY_TIME]

\* increaseMultiplier, a bug variant: the decay timer is left running
IncreaseMultiplierKeepsTimer(G) ==
  [G EXCEPT !.engine.scoreMultiplier = Min(maxMultiplier, @ + 1), !.log.idle = 0]

\* increaseMultiplier; the observer `idle`, the playing time since the last
\* kill, decay or reset, starts again
IncreaseMultiplier(G) ==
  [G EXCEPT !.engine.scoreMultiplier = Min(maxMultiplier, @ + 1),
            !.engine.multiplierDecayTimer = MULTIPLIER_DECAY_TIME,
            !.log.idle = 0]

ResetMultiplier(G) ==
  [G EXCEPT !.engine.scoreMultiplier = 1,
            !.engine.multiplierDecayTimer = MULTIPLIER_DECAY_TIME,
            !.log.idle = 0]

\* the multiplier timer of update(): it runs down every playing frame and takes
\* one step off a multiplier above 1 when it reaches 0
DecayMultiplier(G, dt) ==
  LET timer == G.engine.multiplierDecayTimer - dt
  IN IF timer <= 0 /\ G.engine.scoreMultiplier > 1
     THEN [G EXCEPT !.engine.scoreMultiplier = Max(1, @ - 1),
                    !.engine.multiplierDecayTimer = MULTIPLIER_DECAY_TIME,
                    !.log.decayed = TRUE, !.log.idleAtDecay = G.log.idle, !.log.idle = 0,
                    !.log.multAfterDecay = Max(1, G.engine.scoreMultiplier - 1)]
     ELSE [G EXCEPT !.engine.multiplierDecayTimer = timer,
                    !.log.multAfterDecay = G.engine.scoreMultiplier]

\* the bookkeeping every kill site repeats: score += points * scoreMultiplier,
\* the kill counter where the site has one, then increaseMultiplier(); the
\* observer notes the enemy (id) and the bullet (by, 0 when there is none)
Reward(G, kind, id, by, points, counted) ==
  LET m == G.engine.scoreMultiplier
      G1 == IncreaseMultiplier(
              [G EXCEPT !.engine.score = @ + points * m,
                        !.engine.enemiesKilledThisGame = @ + (IF counted THEN 1 ELSE 0),
                        !.log.killed = @ + (IF counted THEN 1 ELSE 0)])
  IN [G1 EXCEPT !.log.kills =
        Append(@, [kind |-> kind, id |-> id, by |-> by, points |-> points, mult |-> m,
                   after |-> G1.engine.scoreMultiplier])]

\* Player.respawn(x, y) without the ledger call: a bug variant that keeps the ledger
RespawnKeepsLedger(G, pos) ==
  [G EXCEPT !.player.pos = pos, !.player.vel = Pt(0, 0), !.player.isAlive = TRUE,
            !.player.lastFireTime = 0]

\* Player.respawn(x, y): bombCount is kept
Respawn(G, pos) ==
  [G EXCEPT !.player.pos = pos, !.player.vel = Pt(0, 0), !.player.isAlive = TRUE,
            !.player.lastFireTime = 0, !.ledger = ClearLedger(G.ledger)]

\* Player.reset(x, y)
PlayerReset(G, pos) ==
  [G EXCEPT !.player.pos = pos, !.player.vel = Pt(0, 0), !.player.isAlive = TRUE,
            !.player.lastFireTime = 0, !.ledger = ClearLedger(G.ledger), !.player.bombCount = 0]

HandlePlayerHit(G) ==
  LET G1 == ResetMultiplier([G EXCEPT !.engine.lives = @ - 1, !.log.hits = @ + 1,
                                      !.log.bombsAtHit = G.player.bombCount,
                                      !.log.activeAtHit =
                                         {t \in PowerUpTypes : IsActive(G.ledger, t)},
                                      !.log.perpetualAtHit =
                                         {t \in PowerUpTypes : IsPerpetual(G.ledger, t)}])
      G2 == Respawn([G1 EXCEPT !.ledger = ClearTemporary(G1.ledger)], Centre)
      G3 == [G2 EXCEPT !.engine.invincibilityTimer = INVINCIBILITY_DURATION]
  IN IF G3.engine.lives <= 0
     THEN [G3 EXCEPT !.engine.gameState = "gameover",
                     !.engine.storage = UpdateHighScore(AddScore(@, G3.engine.score),
                                                        G3.engine.score)]
     ELSE G3

\* startGame(); reset() makes the same assignments after saving the statistics
StartGame(G) ==
  PlayerReset(
    ResetMultiplier(
      [G EXCEPT !.log.reset = TRUE,
                !.engine.storage = AddGamePlayed(@),
                !.engine.score = 0, !.engine.lives = START_LIVES,
                !.engine.gameState = "playing",
                !.bullets = <<>>, !.enemies = <<>>, !.enemyBullets = <<>>,
                !.powerUps = <<>>, !.wave = WaveReset,
                !.engine.invincibilityTimer = INVINCIBILITY_DURATION,
                !.engine.gameTime = 0, !.engine.enemiesKilledThisGame = 0,
                !.engine.secretCacheFound = FALSE]),
    Centre)

ResetGame(G) == StartGame([G EXCEPT !.engine = SaveStatistics(@)])

-----------------------------------------------------------------------------
(* CollisionSystem *)

Idx(n) == [i \in 1..n |-> i]

\* checkCircleCollision with <= in place of <
CheckCircleCollisionTouching(pos1, pos2, rsum10) ==
  100 * Dist2(pos1, pos2) <= rsum10 * rsum10

\* checkCircleCollision on radii given in tenths
CheckCircleCollision(pos1, pos2, rsum10) == CloserThan(pos1, pos2, rsum10)

\* Bullets vs Enemies for one bullet: the live enemies whose circle it overlaps
BulletHits(G, b) ==
  LET Hit(j) == /\ G.enemies[j].isAlive
                /\ CheckCircleCollision(G.bullets[b].pos, G.enemies[j].pos,
                                        10 * (BULLET_SIZE + GetSize(G.enemies[j])))
      hits == SelectSeq(Idx(Len(G.enemies)), Hit)
  IN [k \in 1..Len(hits) |-> [bullet |-> b, enemy |-> hits[k]]]

RECURSIVE BulletEnemyCollisions(_, _)
BulletEnemyCollisions(G, b) ==
  IF b > Len(G.bullets) THEN <<>>
  ELSE (IF G.bullets[b].isAlive THEN BulletHits(G, b) ELSE <<>>)
       \o BulletEnemyCollisions(G, b + 1)

\* Player vs Enemies: the player's hit box is 0.7 of its size
PlayerEnemyCollisions(G) ==
  LET Hit(j) == /\ G.enemies[j].isAlive
                /\ CheckCircleCollision(G.player.pos, G.enemies[j].pos,
                                        7 * PLAYER_SIZE + 10 * GetSize(G.enemies[j]))
  IN IF G.player.isAlive THEN SelectSeq(Idx(Len(G.enemies)), Hit) ELSE <<>>

\* Player vs Power-ups: full size
PlayerPowerUpCollisions(G) ==
  LET Hit(j) == /\ G.powerUps[j].isAlive
                /\ CheckCircleCollision(G.player.pos, G.powerUps[j].pos,
                                        10 * (PLAYER_SIZE + PowerUpSize(G.powerUps[j])))
  IN IF G.player.isAlive THEN SelectSeq(Idx(Len(G.powerUps)), Hit) ELSE <<>>

\* Player vs Enemy Bullets: the player's hit box is 0.6 of its size
PlayerEnemyBulletCollisions(G) ==
  LET Hit(j) == /\ G.enemyBullets[j].isAlive
                /\ CheckCircleCollision(G.player.pos, G.enemyBullets[j].pos,
                                        6 * PLAYER_SIZE + 10 * ENEMY_BULLET_SIZE)
  IN IF G.player.isAlive THEN SelectSeq(Idx(Len(G.enemyBullets)), Hit) ELSE <<>>

CheckCollisions(G) ==
  [bulletEnemyCollisions |-> BulletEnemyCollisions(G, 1),
   playerEnemyCollisions |-> PlayerEnemyCollisions(G),
   playerPowerUpCollisions |-> PlayerPowerUpCollisions(G),
   playerEnemyBulletCollisions |-> PlayerEnemyBulletCollisions(G)]

\* Enemy.checkSegmentCollision(point, radius): the lowest index (from 0) of a
\* segment closer than radius + 0.7 * size, or -1
CheckSegmentCollision(e, point, radius) ==
  LET hit == {i \in 1..Len(e.segments) :
                CloserThan(point, e.segments[i], 10 * radius + 7 * GetSize(e))}
  IN IF e.type # "snake" \/ hit = {} THEN -1
     ELSE (CHOOSE i \in hit : \A j \in hit : i <= j) - 1

-----------------------------------------------------------------------------
(* GameEngine: bomb, spawning, power-ups *)

\* useBomb(), a bug variant: the blast reaches the nearest enemies only
RECURSIVE BombEnemiesNearOnly(_, _)
BombEnemiesNearOnly(G, i) ==
  IF i > Len(G.enemies) THEN G
  ELSE LET e == G.enemies[i]
       IN IF Dist2(e.pos, G.player.pos) <= SPAWN_MIN_DISTANCE * SPAWN_MIN_DISTANCE
          THEN BombEnemiesNearOnly(Reward([G EXCEPT !.enemies[i] = Kill(e)],
                                          "bomb", e.id, 0, GetPoints(e), TRUE), i + 1)
          ELSE BombEnemiesNearOnly(G, i + 1)

RECURSIVE BombEnemies(_, _)
BombEnemies(G, i) ==
  IF i > Len(G.enemies) THEN G
  ELSE LET e == G.enemies[i]
       IN IF Dist2(e.pos, G.player.pos) <= BOMB_RADIUS * BOMB_RADIUS
          THEN BombEnemies(Reward([G EXCEPT !.enemies[i] = Kill(e)],
                                  "bomb", e.id, 0, GetPoints(e), TRUE), i + 1)
          ELSE BombEnemies(G, i + 1)

BombEnemyBullets(G) ==
  [G EXCEPT !.enemyBullets =
     [i \in 1..Len(G.enemyBullets) |->
        IF Dist2(G.enemyBullets[i].pos, G.player.pos) <= BOMB_RADIUS * BOMB_RADIUS
        THEN [G.enemyBullets[i] EXCEPT !.isAlive = FALSE]
        ELSE G.enemyBullets[i]]]

\* the number of live entities of a collection
RECURSIVE CountAlive(_)
CountAlive(seq) ==
  IF seq = <<>> THEN 0 ELSE (IF Head(seq).isAlive THEN 1 ELSE 0) + CountAlive(Tail(seq))

\* useBomb(): nothing without a charge; the observer notes what the blast
\* found and what it left
UseBomb(G) ==
  IF ~CanUseBomb(G.player) THEN [G EXCEPT !.log.bomb.pressed = TRUE]
  ELSE LET G1 == BombEnemyBullets(BombEnemies([G EXCEPT !.player = PlayerUseBomb(@)], 1))
           live == SelectSeq(G.enemies, LAMBDA e : e.isAlive)
       IN [G1 EXCEPT !.log.bomb =
             [pressed |-> TRUE, used |-> TRUE, countBefore |-> G.player.bombCount,
              count |-> G1.player.bombCount,
              targets |-> [k \in 1..Len(live) |-> [id |-> live[k].id, type |-> live[k].type]],
              bulletsBefore |-> CountAlive(G.enemyBullets),
              enemiesLeft |-> CountAlive(G1.enemies),
              bulletsLeft |-> CountAlive(G1.enemyBullets),
              scoreBefore |-> G.engine.score, score |-> G1.engine.score]]

\* the positions spawnEnemy draws from: on the four edges, 50 inside
IsSpawnPosition(p) ==
  \/ p.y = SPAWN_MARGIN /\ p.x \in 0..ARENA_WIDTH
  \/ p.x = ARENA_WIDTH - SPAWN_MARGIN /\ p.y \in 0..ARENA_HEIGHT
  \/ p.y = ARENA_HEIGHT - SPAWN_MARGIN /\ p.x \in 0..ARENA_WIDTH
  \/ p.x = SPAWN_MARGIN /\ p.y \in 0..ARENA_HEIGHT

PushEnemy(G, pos, type) ==
  [G EXCEPT !.enemies = Append(@, NewEnemy(pos.x, pos.y, type, G.engine.enemyIdCounter)),
            !.engine.enemyIdCounter = @ + 1]

\* spawnEnemy(type) with the random edge position `at`
SpawnEnemy(G, type, at) ==
  IF CloserThan(at, G.player.pos, 10 * SPAWN_MIN_DISTANCE)
  THEN [G EXCEPT !.log.spawn = "rejected"]
  ELSE [PushEnemy(G, at, type) EXCEPT !.log.spawn = "added"]

\* the wave step of update(): waveManager.update, then spawnEnemy on an emission
WaveStep(G, dt, type, at) ==
  LET r == WaveUpdate(G.wave, dt, Len(G.enemies), type)
      G1 == [G EXCEPT !.wave = r.wave]
  IN IF r.emit = "none" THEN G1 ELSE SpawnEnemy(G1, r.emit, at)

\* PowerUp.collect()
Collect(p) == [p EXCEPT !.isAlive = FALSE]

\* the effect of a collected power-up on the player
ApplyPowerUp(G, p) ==
  IF p.type = "extraLife" THEN [G EXCEPT !.engine.lives = Min(@ + 1, MAX_LIVES)]
  ELSE IF p.type = "bomb" THEN [G EXCEPT !.player = AddBomb(@)]
  ELSE [G EXCEPT !.ledger = AddPowerUp(@, p.type, POWERUP_DURATION[p.type], p.isPerpetual)]

\* collectPowerUp, a bug variant: powerUp.collect() is not called
CollectPowerUpStaysAlive(G, i) ==
  ApplyPowerUp([G EXCEPT !.log.collected = Append(@, G.powerUps[i]),
                         !.log.collectedEver = Append(@, G.powerUps[i].pos)],
               G.powerUps[i])

\* collectPowerUp(powerUp)
CollectPowerUp(G, i) ==
  LET p == G.powerUps[i]
      G1 == [G EXCEPT !.powerUps[i] = Collect(@),
                      !.log.collected = Append(@, p),
                      !.log.collectedEver = Append(@, p.pos)]
  IN ApplyPowerUp(G1, p)

\* checkSecretCache, a bug variant: the bombs held are not looked at
SecretCacheAnyCount(G) ==
  IF G.engine.secretCacheFound THEN G
  ELSE IF /\ G.player.pos.y >= ARENA_HEIGHT - SECRET_CACHE_DEPTH
          /\ G.player.pos.x >= 0
          /\ G.player.pos.x <= SECRET_CACHE_END_X
       THEN [G EXCEPT !.engine.secretCacheFound = TRUE,
                      !.player = AddBomb(AddBomb(AddBomb(@)))]
       ELSE G

\* checkSecretCache
SecretCache(G) ==
  IF G.player.bombCount > 0 THEN [G EXCEPT !.engine.secretCacheFound = FALSE]
  ELSE IF G.engine.secretCacheFound THEN G
  ELSE IF /\ G.player.pos.y >= ARENA_HEIGHT - SECRET_CACHE_DEPTH
          /\ G.player.pos.x >= 0
          /\ G.player.pos.x <= SECRET_CACHE_END_X
       THEN [G EXCEPT !.engine.secretCacheFound = TRUE,
                      !.player = AddBomb(AddBomb(AddBomb(@)))]
       ELSE G

\* the call of checkSecretCache at the end of a playing frame; the observer
\* notes the bombs and the flag it found and the bombs it granted
CheckSecretCache(G) ==
  LET G1 == SecretCache(G)
  IN [G1 EXCEPT !.log.cache =
        [bombs |-> G.player.bombCount, found |-> G.engine.secretCacheFound,
         granted |-> G1.player.bombCount - G.player.bombCount]]

-----------------------------------------------------------------------------
(* GameEngine.handleCollisions *)

SEGMENT_HIT_RADIUS == 5
SEGMENT_POINTS_FIRST == 50
SEGMENT_POINTS == 30

KillBullet(G, b) == [G EXCEPT !.bullets[b].isAlive = FALSE]

\* getRandomPowerUpType(): the weighted draw gives `type`, and `lucky` says
\* whether the second draw fell under 0.1
GetRandomPowerUpType(type, lucky) ==
  [type |-> type, isPerpetual |-> CAN_BE_PERPETUAL[type] /\ lucky]

\* spawnPowerUp(x, y) with the random draws of `drop`
SpawnPowerUp(G, pos, drop) ==
  LET drawn == GetRandomPowerUpType(drop.type, drop.lucky)
  IN [G EXCEPT !.powerUps = Append(@, NewPowerUp(pos, drawn.type, drawn.isPerpetual)),
               !.log.drops = Append(@, drawn)]

RECURSIVE PushSplits(_, _)
PushSplits(G, splits) ==
  IF splits = <<>> THEN G
  ELSE PushSplits(PushEnemy(G, Head(splits), "splitter_mini"), Tail(splits))

\* a reported (bullet, snake) pair: the bullet is tested against the segments
HitSnake(G, pair, hasPiercing) ==
  LET e == G.enemies[pair.enemy]
      segmentHit == CheckSegmentCollision(e, G.bullets[pair.bullet].pos, SEGMENT_HIT_RADIUS)
      G1 == IF hasPiercing THEN G ELSE KillBullet(G, pair.bullet)
      G2 == [G1 EXCEPT !.enemies[pair.enemy] = DestroySegment(e, segmentHit).enemy]
  IN IF segmentHit >= 0
     THEN Reward(G2, "segment", e.id, pair.bullet,
                 IF segmentHit = 0 THEN SEGMENT_POINTS_FIRST ELSE SEGMENT_POINTS, FALSE)
     ELSE G

\* the high score check that ends the kill of an enemy by a bullet
CheckHighScore(G) ==
  IF G.engine.score > G.engine.highScore
  THEN [G EXCEPT !.engine.highScore = G.engine.score,
                 !.engine.storage = UpdateHighScore(@, G.engine.score)]
  ELSE G

\* a reported (bullet, enemy) pair of any other type
HitEnemy(G, pair, hasPiercing, drop) ==
  LET e == G.enemies[pair.enemy]
      G1 == IF hasPiercing THEN G ELSE KillBullet(G, pair.bullet)
      damaged == TakeDamage(e, 1)
      G2 == [G1 EXCEPT !.enemies[pair.enemy] = [damaged.enemy EXCEPT !.pendingSplits = <<>>]]
      G3 == Reward([PushSplits(G2, damaged.enemy.pendingSplits) EXCEPT
                      !.log.splits = Append(@, [id |-> e.id, type |-> e.type,
                                                positions |-> damaged.enemy.pendingSplits,
                                                firstId |-> G2.engine.enemyIdCounter])],
                   "bullet", e.id, pair.bullet, GetPoints(e), TRUE)
  IN IF ~damaged.killed THEN [G1 EXCEPT !.enemies[pair.enemy] = damaged.enemy]
     ELSE CheckHighScore(IF e.type # "splitter_mini" /\ drop.spawn
                         THEN SpawnPowerUp(G3, e.pos, drop)
                         ELSE G3)

RECURSIVE ResolveBulletEnemy(_, _, _, _, _)
ResolveBulletEnemy(G, pairs, k, hasPiercing, drop) ==
  IF k > Len(pairs) THEN G
  ELSE ResolveBulletEnemy(
         IF G.enemies[pairs[k].enemy].type = "snake"
         THEN HitSnake(G, pairs[k], hasPiercing)
         ELSE HitEnemy(G, pairs[k], hasPiercing, drop),
         pairs, k + 1, hasPiercing, drop)

RECURSIVE ResolvePowerUps(_, _, _)
ResolvePowerUps(G, hits, k) ==
  IF k > Len(hits) THEN G ELSE ResolvePowerUps(CollectPowerUp(G, hits[k]), hits, k + 1)

\* Player vs Enemy Bullets, a bug variant: the shield is not looked at
ResolveEnemyBulletsNoShield(G, hits) ==
  IF G.engine.invincibilityTimer <= 0 /\ hits # <<>>
  THEN HandlePlayerHit([G EXCEPT !.enemyBullets[hits[1]].isAlive = FALSE])
  ELSE G

\* Player vs Enemy Bullets, a bug variant: invincibility is not looked at
ResolveEnemyBulletsNoInvincibility(G, hits) ==
  IF ~HasShield(G.ledger) /\ hits # <<>>
  THEN HandlePlayerHit([G EXCEPT !.enemyBullets[hits[1]].isAlive = FALSE])
  ELSE G

\* Player vs Enemy Bullets: the first reported bullet hits, the others are left
ResolveEnemyBullets(G, hits) ==
  IF G.engine.invincibilityTimer <= 0 /\ ~HasShield(G.ledger) /\ hits # <<>>
  THEN HandlePlayerHit([G EXCEPT !.enemyBullets[hits[1]].isAlive = FALSE])
  ELSE G

\* Player vs Enemies, a bug variant: a hit does not end the loop
RECURSIVE ResolveEnemiesNoBreak(_, _, _)
ResolveEnemiesNoBreak(G, hits, k) ==
  IF k > Len(hits) THEN G
  ELSE LET e == G.enemies[hits[k]]
           G1 == [G EXCEPT !.enemies[hits[k]] = Kill(e)]
       IN IF HasShield(G.ledger)
          THEN ResolveEnemiesNoBreak(Reward(G1, "shield", e.id, 0, GetPoints(e), TRUE), hits, k + 1)
          ELSE ResolveEnemiesNoBreak(HandlePlayerHit(G1), hits, k + 1)

\* Player vs Enemies: with a shield every reported enemy is destroyed and
\* rewarded; without one the first costs a life and ends the loop
RECURSIVE ResolveEnemies(_, _, _)
ResolveEnemies(G, hits, k) ==
  IF k > Len(hits) THEN G
  ELSE LET e == G.enemies[hits[k]]
           G1 == [G EXCEPT !.enemies[hits[k]] = Kill(e)]
       IN IF HasShield(G.ledger)
          THEN ResolveEnemies(Reward(G1, "shield", e.id, 0, GetPoints(e), TRUE), hits, k + 1)
          ELSE HandlePlayerHit(G1)

\* observer: the (live bullet, live snake) pairs where the bullet is within
\* 5 + 0.7 * size of a segment when the collision pass runs
RECURSIVE SegmentsInReach(_, _)
SegmentsInReach(G, b) ==
  IF b > Len(G.bullets) THEN <<>>
  ELSE LET Near(j) == /\ G.bullets[b].isAlive
                      /\ G.enemies[j].isAlive
                      /\ CheckSegmentCollision(G.enemies[j], G.bullets[b].pos,
                                               SEGMENT_HIT_RADIUS) >= 0
           near == SelectSeq(Idx(Len(G.enemies)), Near)
       IN [k \in 1..Len(near) |-> [bullet |-> b, enemy |-> G.enemies[near[k]].id]]
          \o SegmentsInReach(G, b + 1)

HandleCollisions(G, drop) ==
  LET collisions == CheckCollisions(G)
      hasPiercing == HasPiercing(G.ledger)
      G1 == ResolveBulletEnemy(G, collisions.bulletEnemyCollisions, 1, hasPiercing, drop)
      G2 == ResolvePowerUps(G1, collisions.playerPowerUpCollisions, 1)
      seen == [G2 EXCEPT
                 !.log.collided = TRUE,
                 !.log.atPass = [bullets |-> G.bullets, enemyBullets |-> G.enemyBullets],
                 !.log.invincibility = G2.engine.invincibilityTimer,
                 !.log.shield = HasShield(G2.ledger),
                 !.log.piercing = hasPiercing,
                 !.log.bulletEnemy =
                    [k \in 1..Len(collisions.bulletEnemyCollisions) |->
                       [bullet |-> collisions.bulletEnemyCollisions[k].bullet,
                        enemy |-> G.enemies[collisions.bulletEnemyCollisions[k].enemy].id]],
                 !.log.playerEnemy =
                    [k \in 1..Len(collisions.playerEnemyCollisions) |->
                       G.enemies[collisions.playerEnemyCollisions[k]].id],
                 !.log.playerEnemyBullet = collisions.playerEnemyBulletCollisions,
                 !.log.inReach = SegmentsInReach(G, 1)]
      G3 == ResolveEnemyBullets(seen, collisions.playerEnemyBulletCollisions)
  IN IF G3.engine.invincibilityTimer <= 0
     THEN ResolveEnemies(G3, collisions.playerEnemyCollisions, 1)
     ELSE G3

-----------------------------------------------------------------------------
(* GameEngine.update: one frame *)

\* What a frame reads from outside the game state: the capped deltaTime, the
\* keys and the mouse, and the outcome of the frame's random draws and of the
\* steering arithmetic (positions are whole units, so velocities times
\* deltaTime are given as displacements).
\*   dt         deltaTime in ticks
\*   pause      Escape or P just pressed
\*   nav        menu cursor key just pressed: -1 up, 1 down, 0 none
\*   enter      Enter just pressed
\*   back       BACK chosen on the options screen
\*   firing     mouse button held
\*   bomb       Space just pressed
\*   vel        the player's velocity after thrust and friction, a tick
\*   shot       "none" when player.fire() returns null, else the aim direction
\*   moves      per enemy (by index), the displacement of its update
\*   shooters   the shooters (by index) whose shoot timer fires in this frame
\*   tab        Tab just pressed
\*   teleportAt the position drawn by a boss that teleports in this frame
\*   spawnType  the type drawn by getNextEnemyToSpawn
\*   spawnAt    the edge position drawn by spawnEnemy
\*   drop       the draws made for the enemies killed by bullets: spawn, whether
\*              a power-up is dropped, then its type and the perpetual draw
NoInput ==
  [dt |-> 1, pause |-> FALSE, nav |-> 0, enter |-> FALSE, back |-> FALSE, firing |-> FALSE,
   bomb |-> FALSE, tab |-> FALSE, vel |-> Pt(0, 0), shot |-> Pt(0, 0), moves |-> <<>>,
   shooters |-> {}, teleportAt |-> Pt(TELEPORT_MARGIN, TELEPORT_MARGIN), spawnType |-> "wanderer", spawnAt |-> Pt(ARENA_WIDTH - SPAWN_MARGIN, 0),
   drop |-> [spawn |-> FALSE, type |-> "shield", lucky |-> FALSE]]

PAUSE_MENU_OPTIONS == <<"RESUME", "OPTIONS", "MAIN MENU">>
GAMEOVER_MENU_OPTIONS == <<"RETRY", "MAIN MENU">>

\* Escape / P in update()
TogglePause(G, pause) ==
  IF ~pause THEN G
  ELSE IF G.engine.gameState = "playing" THEN [G EXCEPT !.engine.gameState = "paused"]
  ELSE IF G.engine.gameState = "paused" THEN [G EXCEPT !.engine.gameState = "playing"]
  ELSE IF G.engine.gameState = "options"
  THEN [G EXCEPT !.engine.gameState = G.engine.previousState]
  ELSE G

\* handlePauseMenuSelection
HandlePauseMenuSelection(G) ==
  LET choice == PAUSE_MENU_OPTIONS[G.engine.pauseMenuIndex + 1]
      G1 == [G EXCEPT !.engine.pauseMenuIndex = 0, !.log.selected = choice]
  IN IF choice = "RESUME" THEN [G1 EXCEPT !.engine.gameState = "playing"]
     ELSE IF choice = "OPTIONS"
     THEN [G1 EXCEPT !.engine.gameState = "options", !.engine.previousState = "paused"]
     ELSE [G1 EXCEPT !.engine =
             LET saved == SaveStatistics([@ EXCEPT !.gameState = "menu"])
             IN [saved EXCEPT !.storage = AddScore(@, saved.score)]]

UpdatePauseMenu(G, in) ==
  LET n == Len(PAUSE_MENU_OPTIONS)
      G1 == [G EXCEPT !.engine.pauseMenuIndex = (@ + in.nav + n) % n]
  IN IF in.enter \/ in.firing THEN HandlePauseMenuSelection(G1) ELSE G1

\* updateOptionsMenu: the settings edited on the screen are not game state;
\* BACK returns to the state the screen was opened from
UpdateOptionsMenu(G, in) ==
  IF in.back THEN [G EXCEPT !.engine.gameState = G.engine.previousState] ELSE G

\* updateMainMenu (the O key, which opens the options, is never pressed here)
UpdateMainMenu(G, in) == IF in.firing THEN StartGame(G) ELSE G

HandleGameOverSelection(G) ==
  LET choice == GAMEOVER_MENU_OPTIONS[G.engine.gameOverMenuIndex + 1]
      G1 == [G EXCEPT !.engine.gameOverMenuIndex = 0]
  IN IF choice = "RETRY" THEN ResetGame(G1) ELSE [G1 EXCEPT !.engine.gameState = "menu"]

UpdateGameOverMenu(G, in) ==
  LET n == Len(GAMEOVER_MENU_OPTIONS)
      G1 == [G EXCEPT !.engine.gameOverMenuIndex = (@ + in.nav + n) % n]
  IN IF in.enter THEN HandleGameOverSelection(G1) ELSE G1

\* Player.update: the ledger's timers, then the movement, kept inside the arena
PlayerUpdate(G, dt, vel) ==
  IF ~G.player.isAlive THEN G
  ELSE [G EXCEPT !.ledger = LedgerUpdate(@, dt),
                 !.player.vel = vel,
                 !.player.pos = Pt(Clamp(@.x + vel.x * dt, PLAYER_SIZE, ARENA_WIDTH - PLAYER_SIZE),
                                   Clamp(@.y + vel.y * dt, PLAYER_SIZE, ARENA_HEIGHT - PLAYER_SIZE))]

\* the firing step: one bullet leaves the cannon, 10 beyond the player's size
\* (the extra bullets of spread and double shot are not modelled)
Fire(G, shot) ==
  IF shot = Pt(0, 0) THEN G
  ELSE [G EXCEPT !.bullets =
          Append(@, NewBullet(Plus(G.player.pos, shot, PLAYER_SIZE + 10),
                              Pt(shot.x * BULLET_SPEED, shot.y * BULLET_SPEED)))]

\* the two bullet loops of update(): every bullet is updated, then the dead
\* ones are filtered out; the observer keeps each bullet before and after
UpdateBullets(G, dt) ==
  LET after == [i \in 1..Len(G.bullets) |-> BulletUpdate(G.bullets[i], dt)]
  IN [G EXCEPT !.bullets = FilterAlive(after),
               !.log.updated = [i \in 1..Len(after) |->
                                  [before |-> G.bullets[i], after |-> after[i]]]]

UpdateEnemyBullets(G, dt) ==
  LET after == [i \in 1..Len(G.enemyBullets) |-> EnemyBulletUpdate(G.enemyBullets[i], dt)]
  IN [G EXCEPT !.enemyBullets = FilterAlive(after),
               !.log.enemyUpdated = [i \in 1..Len(after) |->
                                       [before |-> G.enemyBullets[i], after |-> after[i]]]]

MoveOf(moves, i) == IF i \in DOMAIN moves THEN moves[i] ELSE Pt(0, 0)

\* Enemy.shoot: the bullet leaves the enemy towards the player; the direction
\* is kept to the dominant axis
ShotVelocity(from, to) ==
  IF Abs(to.x - from.x) >= Abs(to.y - from.y)
  THEN Pt(Sign(to.x - from.x) * ENEMY_BULLET_SPEED, 0)
  ELSE Pt(0, Sign(to.y - from.y) * ENEMY_BULLET_SPEED)

\* Enemy.shootBossPattern: a fan of 5 bullets, 30 degrees apart around the
\* direction of the player, is pushed on the boss's queue (cosines and sines
\* in thousandths, the velocities kept whole)
FanVelocity(from, to, i) ==
  LET d == IF Abs(to.x - from.x) >= Abs(to.y - from.y)
           THEN Pt(Sign(to.x - from.x), 0) ELSE Pt(0, Sign(to.y - from.y))
      c == FAN_COS[Abs(i) + 1]
      sn == Sign(i) * FAN_SIN[Abs(i) + 1]
  IN Pt((BOSS_BULLET_SPEED * (d.x * c - d.y * sn)) \div 1000,
        (BOSS_BULLET_SPEED * (d.x * sn + d.y * c)) \div 1000)

ShootBossPattern(e, playerPos) ==
  IF e.pos = playerPos THEN e
  ELSE [e EXCEPT !.pendingBullets =
          @ \o [k \in 1..FAN_SHOTS |-> NewBullet(e.pos, FanVelocity(e.pos, playerPos, k - 3))]]

\* updateBossHexagon, a bug variant: the shoot timer runs during the charge too
UpdateBossHexagonNoCharge(e, dt, playerPos, teleportAt) ==
  LET e1 == IF e.teleportTimer + dt >= TELEPORT_INTERVAL
            THEN [e EXCEPT !.teleportTimer = 0, !.isCharging = TRUE,
                           !.chargeTimer = CHARGE_TIME, !.shootTimer = 0,
                           !.pos = teleportAt]
            ELSE [e EXCEPT !.teleportTimer = @ + dt]
      e2 == IF e1.isCharging
            THEN [e1 EXCEPT !.chargeTimer = @ - dt, !.isCharging = e1.chargeTimer - dt > 0]
            ELSE e1
  IN IF e2.shootTimer + dt >= BOSS_SHOOT_INTERVAL
     THEN ShootBossPattern([e2 EXCEPT !.shootTimer = 0], playerPos)
     ELSE [e2 EXCEPT !.shootTimer = @ + dt]

\* Enemy.updateBossHexagon: the teleport every 3 s, with 1 s of charge after
\* it, and a fan every 1.5 s while not charging
UpdateBossHexagon(e, dt, playerPos, teleportAt) ==
  LET e1 == IF e.teleportTimer + dt >= TELEPORT_INTERVAL
            THEN [e EXCEPT !.teleportTimer = 0, !.isCharging = TRUE,
                           !.chargeTimer = CHARGE_TIME, !.shootTimer = 0,
                           !.pos = teleportAt]
            ELSE [e EXCEPT !.teleportTimer = @ + dt]
  IN IF e1.isCharging
     THEN [e1 EXCEPT !.chargeTimer = @ - dt, !.isCharging = e1.chargeTimer - dt > 0]
     ELSE IF e1.shootTimer + dt >= BOSS_SHOOT_INTERVAL
     THEN ShootBossPattern([e1 EXCEPT !.shootTimer = 0], playerPos)
     ELSE [e1 EXCEPT !.shootTimer = @ + dt]

\* Enemy.getPendingBullet: a boss hands out the bullets of its queue one per
\* call; any other enemy the bullet it has just shot, if any.  `shot` is that
\* bullet (a sequence of one or none)
GetPendingBullet(e, shot) ==
  IF e.type = "boss_hexagon" /\ e.pendingBullets # <<>>
  THEN [enemy |-> [e EXCEPT !.pendingBullets = Tail(@)], bullet |-> <<Head(e.pendingBullets)>>]
  ELSE [enemy |-> e, bullet |-> shot]

\* one turn of the enemy loop of update(): enemy.update, then one call of
\* getPendingBullet
EnemyTurn(G, i, in) ==
  LET e == G.enemies[i]
      moved == EnemyUpdate(e, Plus(e.pos, MoveOf(in.moves, i), 1))
      updated == IF e.isAlive /\ e.type = "boss_hexagon"
                 THEN UpdateBossHexagon(moved, in.dt, G.player.pos, in.teleportAt)
                 ELSE moved
      shot == IF /\ i \in in.shooters
                 /\ e.isAlive
                 /\ e.type = "shooter"
                 /\ e.pos # G.player.pos
              THEN <<NewBullet(e.pos, ShotVelocity(e.pos, G.player.pos))>>
              ELSE <<>>
  IN [taken |-> GetPendingBullet(updated, shot),
      fan |-> Len(updated.pendingBullets) > Len(e.pendingBullets)]

RECURSIVE EnemyLoop(_, _, _)
EnemyLoop(G, i, in) ==
  IF i > Len(G.enemies) THEN G
  ELSE LET turn == EnemyTurn(G, i, in)
       IN EnemyLoop([G EXCEPT !.enemies[i] = turn.taken.enemy,
                              !.enemyBullets = @ \o turn.taken.bullet,
                              !.log.fans = @ + (IF turn.fan THEN 1 ELSE 0),
                              !.log.enemyShots = @ + Len(turn.taken.bullet)],
                    i + 1, in)

\* the enemy loop of update(): every enemy is updated and one pending bullet
\* taken from it, then the dead ones are filtered out
UpdateEnemies(G, in) ==
  LET G1 == EnemyLoop(G, 1, in)
  IN [G1 EXCEPT !.enemies = FilterAlive(@)]

UpdatePowerUps(G, dt) ==
  [G EXCEPT !.powerUps = FilterAlive([i \in 1..Len(@) |-> PowerUpUpdate(@[i], dt)])]

\* the part of update() that runs only while playing
Playing(G, in) ==
  LET G1 == [G EXCEPT !.log.played = TRUE, !.log.idle = @ + in.dt,
                      !.log.timePlayed = @ + in.dt,
                      !.engine.gameTime = @ + in.dt,
                      !.engine.invincibilityTimer = IF @ > 0 THEN @ - in.dt ELSE @]
      G2 == DecayMultiplier(G1, in.dt)
      toggled == IF in.tab
                 THEN [G2 EXCEPT !.player = ToggleControlMode(@), !.log.toggled = @ + 1]
                 ELSE G2
      bombed == IF in.bomb THEN UseBomb(toggled) ELSE toggled
      G3 == [bombed EXCEPT !.engine.input = ClearJustPressed(@)]
      G4 == Fire(PlayerUpdate(G3, in.dt, in.vel), IF in.firing THEN in.shot ELSE Pt(0, 0))
      G5 == UpdateEnemyBullets(UpdateBullets(G4, in.dt), in.dt)
      G6 == UpdatePowerUps(UpdateEnemies(G5, in), in.dt)
      G7 == WaveStep(G6, in.dt, in.spawnType, in.spawnAt)
  IN CheckSecretCache(HandleCollisions(G7, in.drop))

\* the head of update(): the log of the frame starts, then the global keys
\* and the menu of the current state, each gameState test in its turn; the
\* state reached at the test of line 322 is logged
Menus(G, in) ==
  LET G0 == [G EXCEPT !.log = [NoFrame EXCEPT
                !.before =
                   [lives |-> G.engine.lives, score |-> G.engine.score,
                    scoreMultiplier |-> G.engine.scoreMultiplier,
                    bombCount |-> G.player.bombCount,
                    enemyIdCounter |-> G.engine.enemyIdCounter],
                !.started = G.engine.gameState,
                !.idle = G.log.idle,
                !.killed = G.log.killed, !.timePlayed = G.log.timePlayed,
                !.collectedEver = G.log.collectedEver,
                !.down = G.log.down, !.presses = G.log.presses,
                !.edges = G.log.fresh, !.seen = G.engine.input.justPressedKeys,
                !.keys = [pause |-> in.pause, enter |-> in.enter, firing |-> in.firing]]]
      G1 == TogglePause(G0, in.pause)
      G2 == IF G1.engine.gameState = "paused" THEN UpdatePauseMenu(G1, in) ELSE G1
      G3 == IF G2.engine.gameState = "options" THEN UpdateOptionsMenu(G2, in) ELSE G2
      G4 == IF G3.engine.gameState = "menu" THEN UpdateMainMenu(G3, in) ELSE G3
      G5 == IF G4.engine.gameState = "gameover" THEN UpdateGameOverMenu(G4, in) ELSE G4
  IN [G5 EXCEPT !.log.check = G5.engine.gameState]

\* update() without the return of lines 322-325
FrameNoCheck(G, in) == Playing(Menus(G, in), in)

\* update(deltaTime): the global keys and the menus, then the game if it is
\* playing
Frame(G, in) ==
  LET G5 == Menus(G, in)
  IN IF G5.engine.gameState # "playing"
     THEN [G5 EXCEPT !.engine.input = ClearJustPressed(@)]
     ELSE Playing(G5, in)

\* renderPause, called by render() when the frame's update left the game
\* paused: it handles the menu once more.  The keys just pressed were cleared
\* by update(), the mouse button is still held
RenderPause(G, in) == IF in.firing THEN HandlePauseMenuSelection(G) ELSE G

\* render(): nothing but the pause overlay touches the engine's state
Render(G, in) == IF G.engine.gameState = "paused" THEN RenderPause(G, in) ELSE G

\* gameLoop: update, then render
GameLoop(G, in) == Render(Frame(G, in), in)

-----------------------------------------------------------------------------
(* The ledger driven through its public methods *)

LedgerTypes == {"shield", "rapidFire"}

\* granted: sum of the durations granted to the live temporary entry; elapsed:
\* update time it has seen; grants: number of grants; before: the update time
\* it had seen when the last grant was made.  For a perpetual entry: granted is
\* what the temporary timer it superseded had been granted, elapsed the update
\* time seen since it is perpetual (counted up to MaxDt)
NoLog == [granted |-> 0, elapsed |-> 0, grants |-> 0, before |-> 0]

LedgerStart ==
  /\ activePowerUps = EmptyMap
  /\ perpetualPowerUps = {}
  /\ grantLog = [t \in LedgerTypes |-> NoLog]

LedgerInit ==
  /\ LedgerStart
  /\ enemy = "none"
  /\ enemyLog = "none"
  /\ EngineIdle

CallAddPowerUp(type, duration, isPerpetual) ==
  LET L2 == AddPowerUp(Ledger, type, duration, isPerpetual)
      live == type \in DOMAIN L2.active /\ ~L2.active[type].isPerpetual
  IN /\ grantLog[type].grants < MaxGrants \/ isPerpetual
     /\ SetLedger(L2)
     /\ UNCHANGED notLedgerVars
     /\ grantLog' = [grantLog EXCEPT ![type] =
                       IF type \in L2.perpetual
                       THEN (IF type \in perpetualPowerUps THEN @
                             ELSE [NoLog EXCEPT !.granted = grantLog[type].granted])
                       ELSE IF ~live THEN NoLog
                       ELSE IF ~isPerpetual /\ duration # 0
                            THEN [granted |-> @.granted + duration,
                                  elapsed |-> @.elapsed,
                                  grants |-> @.grants + 1,
                                  before |-> @.elapsed]
                            ELSE @]

CallUpdate(dt) ==
  LET L2 == LedgerUpdate(Ledger, dt)
  IN /\ SetLedger(L2)
     /\ UNCHANGED notLedgerVars
     /\ grantLog' = [t \in LedgerTypes |->
                       IF t \in DOMAIN L2.active /\ ~L2.active[t].isPerpetual
                       THEN [grantLog[t] EXCEPT !.elapsed = @ + dt]
                       ELSE IF t \in L2.perpetual
                       THEN [grantLog[t] EXCEPT !.elapsed = Min(@ + dt, MaxDt)]
                       ELSE NoLog]

CallClearTemporary ==
  /\ SetLedger(ClearTemporary(Ledger))
  /\ UNCHANGED notLedgerVars
  /\ grantLog' = [t \in LedgerTypes |->
                    IF t \in perpetualPowerUps THEN grantLog[t] ELSE NoLog]

CallClear ==
  /\ SetLedger(ClearLedger(Ledger))
  /\ UNCHANGED notLedgerVars
  /\ grantLog' = [t \in LedgerTypes |-> NoLog]

LedgerNext ==
  \/ \E type \in LedgerTypes, duration \in 0..MaxDuration, isPerpetual \in BOOLEAN :
       CallAddPowerUp(type, duration, isPerpetual)
  \/ \E dt \in 1..MaxDt : CallUpdate(dt)
  \/ CallClearTemporary
  \/ CallClear

SpecLedger == LedgerInit /\ [][LedgerNext]_vars

LedgerAfter == [active |-> activePowerUps', perpetual |-> perpetualPowerUps']

(* C1: once a type has been granted as perpetual it is perpetual and active
   after every addPowerUp, update and clearTemporary call, until clear() is
   called; and a temporary grant of a perpetual type leaves the ledger as it
   was. *)
C1_PerpetualSticky ==
  [][\A T \in LedgerTypes :
       /\ (\E d \in 0..MaxDuration : CallAddPowerUp(T, d, TRUE))
            => IsPerpetual(LedgerAfter, T) /\ IsActive(LedgerAfter, T)
       /\ (IsPerpetual(Ledger, T) /\ ~CallClear)
            => IsPerpetual(LedgerAfter, T) /\ IsActive(LedgerAfter, T)
       /\ (IsPerpetual(Ledger, T) /\ \E d \in 0..MaxDuration : CallAddPowerUp(T, d, FALSE))
            => LedgerAfter = Ledger]_vars

\* a perpetual type that is still perpetual while a timer of another type has
\* been granted twice and decremented
C1_Witness ==
  /\ IsPerpetual(Ledger, "rapidFire")
  /\ IsActive(Ledger, "rapidFire")
  /\ grantLog["shield"].grants = 2
  /\ grantLog["shield"].elapsed > 0

(* C2: temporary grants stack: a live non-perpetual entry holds the sum of
   the durations granted to it minus the update time elapsed since its first
   grant (D1 + D2 - e after two grants). *)
C2_TemporaryGrantsStack ==
  \A T \in LedgerTypes :
    (T \in DOMAIN activePowerUps /\ ~IsPerpetual(Ledger, T))
      => GetRemainingTime(Ledger, T) = grantLog[T].granted - grantLog[T].elapsed

\* D1 = 2, one update of 1 tick, D2 = 2: the timer reads 3, neither D2 nor
\* max(D1, D2)
C2_Witness ==
  /\ grantLog["shield"] = [granted |-> 4, elapsed |-> 1, grants |-> 2, before |-> 1]
  /\ GetRemainingTime(Ledger, "shield") = 3

-----------------------------------------------------------------------------
(* The Enemy object driven through its methods: a freshly spawned snake *)

SnakeSpawn == Pt(1000, 50)

\* the displacements of a snake head in one update: none, or one spacing along x
SnakeMoves(e) ==
  {e.pos, Pt(e.pos.x + SEGMENT_SPACING, e.pos.y),
   Pt(e.pos.x - SEGMENT_SPACING, e.pos.y)}

EnemyInit ==
  /\ LedgerStart
  /\ enemy = NewEnemy(SnakeSpawn.x, SnakeSpawn.y, "snake", 0)
  /\ enemyLog = [destroyed |-> 0, updates |-> 0, lastOk |-> "none"]
  /\ EngineIdle

CallDestroySegment(index) ==
  LET r == DestroySegment(enemy, index)
  IN /\ enemy' = r.enemy
     /\ enemyLog' = [enemyLog EXCEPT !.destroyed = @ + (IF r.ok THEN 1 ELSE 0),
                                     !.lastOk = r.ok]
     /\ UNCHANGED notEnemyVars

CallEnemyUpdate(to) ==
  /\ enemyLog.updates < MaxUpdates
  /\ enemy' = EnemyUpdate(enemy, to)
  /\ enemyLog' = [enemyLog EXCEPT !.updates = @ + 1, !.lastOk = "none"]
  /\ UNCHANGED notEnemyVars

EnemyNext ==
  \/ \E index \in -1..SEGMENT_COUNT : CallDestroySegment(index)
  \/ \E to \in SnakeMoves(enemy) : CallEnemyUpdate(to)

SpecEnemy == EnemyInit /\ [][EnemyNext]_vars



ValidIndex(e, index) == index >= 0 /\ index < GetSegmentCount(e)

(* C5 as stated: a fresh snake is alive with 9 - k segments after k < 9
   successful destroySegment calls, and is marked dead as soon as all 9
   segments have been destroyed. *)
C5_Original ==
  /\ (enemyLog.destroyed < SEGMENT_COUNT =>
        enemy.isAlive /\ GetSegmentCount(enemy) = SEGMENT_COUNT - enemyLog.destroyed)
  /\ (enemyLog.destroyed = SEGMENT_COUNT => ~enemy.isAlive)

(* C5: a fresh snake is alive with 9 - k segments after k < 9 successful
   destroySegment calls (any valid indices, any order, updates in between);
   destroySegment with an index outside 0..getSegmentCount()-1 returns false
   and changes nothing; destroySegment itself never marks the enemy dead:
   once all 9 segments are destroyed the enemy is marked dead by its next
   update() call, and stays dead. *)
C5_SnakeSegments ==
  [][/\ (enemyLog.destroyed < SEGMENT_COUNT =>
           enemy.isAlive /\ GetSegmentCount(enemy) = SEGMENT_COUNT - enemyLog.destroyed)
     /\ (enemyLog'.destroyed < SEGMENT_COUNT =>
           enemy'.isAlive /\ GetSegmentCount(enemy') = SEGMENT_COUNT - enemyLog'.destroyed)
     /\ \A index \in -1..SEGMENT_COUNT :
          CallDestroySegment(index) =>
            /\ enemy'.isAlive = enemy.isAlive
            /\ enemyLog'.lastOk = ValidIndex(enemy, index)
            /\ (~ValidIndex(enemy, index) => enemy' = enemy)
     /\ ((enemyLog.destroyed = SEGMENT_COUNT /\ \E to \in SnakeMoves(enemy) : CallEnemyUpdate(to))
          => ~enemy'.isAlive)
     /\ (~enemy.isAlive => ~enemy'.isAlive)]_vars

C5_Witness ==
  /\ enemyLog.destroyed = SEGMENT_COUNT
  /\ enemyLog.updates = 2
  /\ ~enemy.isAlive
  /\ GetSegmentCount(enemy) = 0

-----------------------------------------------------------------------------
(* The engine run frame by frame *)

\* one frame of the loop: gameLoop calls update(deltaTime), then render()
RunFrame(in) ==
  /\ SetGame(GameLoop(Game, in))
  /\ frames' = frames + 1
  /\ UNCHANGED <<grantLog, enemy, enemyLog, loop>>

\* the objects of the stand-alone drivers, unused while the engine runs
NoDrivers ==
  /\ grantLog = [t \in LedgerTypes |-> NoLog]
  /\ enemy = "none"
  /\ enemyLog = "none"

-----------------------------------------------------------------------------
(* First wave of a new game.  The engine starts in the menu; a click starts
   the game; frames run at the capped deltaTime; the player flies up and down
   between the centre and a point 150 under the top edge; every spawn is drawn
   at the middle of the top edge. *)

PlayerSpeed == 1000 \div TicksPerSecond     \* about the ship's top speed
TopSpawn == Pt(ARENA_WIDTH \div 2, SPAWN_MARGIN)
NearTop == TopSpawn.y + 150

PlayerFlight ==
  {Pt(0, 0)}
    \cup (IF player.pos.y > NearTop THEN {Pt(0, -PlayerSpeed)} ELSE {})
    \cup (IF player.pos.y < Centre.y THEN {Pt(0, PlayerSpeed)} ELSE {})

WaveInputs ==
  {[NoInput EXCEPT !.dt = DT_CAP, !.firing = (engine.gameState = "menu"),
                   !.vel = v, !.spawnAt = TopSpawn] : v \in PlayerFlight}

WaveInit == EngineIdle /\ LedgerStart /\ NoDrivers

WaveFrame ==
  /\ engine.gameTime < MaxWaveTicks
  /\ \E in \in WaveInputs : RunFrame(in)

WaveNext == WaveFrame

SpecWave == WaveInit /\ [][WaveNext]_vars

BudgetSpent ==
  /\ waveManager.isActive
  /\ waveManager.enemiesSpawned >= WaveEnemyCount(waveManager.currentWave)

(* C3 as stated: a rejected spawn adds no enemy and does not consume the
   wave's spawn budget, so the budget counts the enemies added to the arena
   and, once it is spent, enemyCount enemies have been added during the wave
   (first wave: every enemy ever created belongs to it). *)
C3_Original ==
  /\ (frameLog.spawn = "rejected" => Len(enemies) = engine.enemyIdCounter)
  /\ (waveManager.currentWave <= 1 => waveManager.enemiesSpawned = engine.enemyIdCounter)
  /\ (waveManager.currentWave = 1 /\ BudgetSpent) =>
        engine.enemyIdCounter = WaveEnemyCount(1)

\* a first wave whose budget is spent with fewer enemies added than enemyCount
C3_BudgetLost ==
  /\ waveManager.currentWave = 1
  /\ BudgetSpent
  /\ Len(enemies) < WaveEnemyCount(1)

-----------------------------------------------------------------------------
(* Scenes of the arena.  A scene is the game in the middle of wave 7, the
   first wave with snakes, once the wave has spawned all its enemies: the
   player is at the centre with two enemies on it (a wanderer and a shooter),
   a bullet of the player is about to reach the wanderer, a snake lies to the
   right with two bullets flying along its body, and an enemy bullet may be
   about to reach the player.  The scenes differ in the invincibility left,
   the shield, the multiplier, the lives and the bombs. *)

SceneWave == 7
SceneInvincibility == {0, 3}
SceneMultipliers == {1, maxMultiplier - 1}
SceneLives == {1, START_LIVES}
SceneBombs == {0, 2}

FirstId == 400
SceneEnemies ==
  <<NewEnemy(Centre.x + 20, Centre.y, "wanderer", FirstId),
    NewEnemy(Centre.x, Centre.y + 25, "shooter", FirstId + 1),
    NewEnemy(Centre.x + 400, Centre.y, "snake", FirstId + 2)>>

SceneBullets ==
  <<NewBullet(Pt(Centre.x - 20, Centre.y), Pt(BULLET_SPEED, 0)),
    NewBullet(Pt(Centre.x + 190, Centre.y), Pt(BULLET_SPEED, 0)),
    NewBullet(Pt(Centre.x + 350, Centre.y), Pt(BULLET_SPEED, 0))>>

SceneEnemyBullets ==
  <<NewBullet(Pt(Centre.x - 2 * ENEMY_BULLET_SPEED, Centre.y), Pt(ENEMY_BULLET_SPEED, 0))>>

SceneLedger(shield) ==
  LET L == AddPowerUp(NewLedger, "rapidFire", POWERUP_DURATION["rapidFire"], TRUE)
  IN IF shield THEN AddPowerUp(L, "shield", POWERUP_DURATION["shield"], FALSE) ELSE L

Scene(inv, shield, mult, lives, bombs, shot) ==
  [engine |-> [NewEngine EXCEPT
                 !.gameState = "playing", !.lives = lives, !.invincibilityTimer = inv,
                 !.scoreMultiplier = mult,
                 !.multiplierDecayTimer = IF mult = 1 THEN 0 ELSE MULTIPLIER_DECAY_TIME,
                 !.score = 100000, !.gameTime = 120 * TicksPerSecond,
                 !.highScore = 100000,
                 !.storage = [NewStorage EXCEPT !.highScore = 100000, !.totalGamesPlayed = 1],
                 !.enemiesKilledThisGame = FirstId - 10, !.enemyIdCounter = FirstId + 3],
   player |-> [NewPlayer(Centre) EXCEPT !.bombCount = bombs],
   ledger |-> SceneLedger(shield),
   bullets |-> SceneBullets,
   enemies |-> SceneEnemies,
   enemyBullets |-> IF shot THEN SceneEnemyBullets ELSE <<>>,
   powerUps |-> <<>>,
   wave |-> [StartNextWave([WaveReset EXCEPT !.currentWave = SceneWave - 1]) EXCEPT
               !.enemiesSpawned = WaveEnemyCount(SceneWave), !.enemiesRemaining = 0],
   log |-> [NoFrame EXCEPT !.killed = FirstId - 10, !.timePlayed = 120 * TicksPerSecond]]

Scenes ==
  {Scene(inv, shield, mult, lives, bombs, shot) :
     inv \in SceneInvincibility, shield \in BOOLEAN, mult \in SceneMultipliers,
     lives \in SceneLives, bombs \in SceneBombs, shot \in BOOLEAN}

ArenaInit ==
  /\ \E G \in Scenes : GameIs(G)
  /\ frames = 0
  /\ loop = NewLoop(TRUE)
  /\ NoDrivers

\* the inputs of a frame of the arena: the player neither steers nor fires,
\* the enemies stay where they are; Space and, on the game-over screen, Enter
\* may be pressed
ArenaInputs ==
  {[NoInput EXCEPT !.dt = dt, !.bomb = bomb, !.enter = enter] :
     dt \in 1..DT_CAP, bomb \in BOOLEAN,
     enter \in IF engine.gameState = "gameover" THEN BOOLEAN ELSE {FALSE}}

ArenaFrame ==
  /\ frames < MaxFrames
  /\ \E in \in ArenaInputs : RunFrame(in)

\* the public reset(), called from the page
CallReset ==
  /\ frames < MaxFrames
  /\ engine.storage.totalGamesPlayed < MaxGames
  /\ engine.gameState \in {"playing", "gameover"}
  /\ SetGame([ResetGame(Game) EXCEPT
                !.log = [NoFrame EXCEPT !.reset = TRUE, !.killed = frameLog.killed,
                                        !.timePlayed = frameLog.timePlayed]])
  /\ UNCHANGED <<frames, grantLog, enemy, enemyLog, loop>>

ArenaNext == ArenaFrame \/ CallReset

SpecArena == ArenaInit /\ [][ArenaNext]_vars

-----------------------------------------------------------------------------
(* Properties of the frames run from the scenes *)

RECURSIVE SumRewards(_)
SumRewards(kills) ==
  IF kills = <<>> THEN 0
  ELSE Head(kills).points * Head(kills).mult + SumRewards(Tail(kills))

\* the score the frame started from: reset() in the frame puts it to 0 first
ScoreBase == IF frameLog.reset THEN 0 ELSE frameLog.before.score

KillsOfKind(kind) == {k \in DOMAIN frameLog.kills : frameLog.kills[k].kind = kind}

EnemyWithId(id) == CHOOSE i \in DOMAIN enemies : enemies[i].id = id

LedgerEmpty ==
  /\ \A t \in PowerUpTypes : ~IsActive(Ledger, t)
  /\ perpetualPowerUps = {}

\* C4, as stated: every (live bullet, live snake) pair where the bullet is
\* within 5 + 0.7 * size of a segment when the collision pass runs has a
\* segment of that snake destroyed by that bullet in the frame
C4_Original ==
  \A k \in DOMAIN frameLog.inReach :
    \E j \in KillsOfKind("segment") :
      /\ frameLog.kills[j].by = frameLog.inReach[k].bullet
      /\ frameLog.kills[j].id = frameLog.inReach[k].enemy

\* a bullet on a segment of the tail, out of the circle of the head, in a
\* frame where no segment goes
C4_TailMissed ==
  /\ frameLog.inReach # <<>>
  /\ frameLog.bulletEnemy = <<>>
  /\ KillsOfKind("segment") = {}

\* the multiplier a frame can end with: the decay may have taken one step
\* before the kills, each of which adds 1 up to the cap
AfterKills(m) == Min(maxMultiplier, Max(m, 1) + Len(frameLog.kills))

\* C6: scoreMultiplier is in 1..100 in every state; every rewarded kill
\* (bullet, segment, shield contact, bomb) raises it by exactly 1 unless it
\* is 100 already, so that a frame without a hit ends with the multiplier it
\* started with, less a possible decay step, plus its kills up to 100; a
\* frame with a hit ends with the multiplier at 1
C6_Multiplier ==
  /\ engine.scoreMultiplier \in 1..maxMultiplier
  /\ \A k \in DOMAIN frameLog.kills :
       /\ frameLog.kills[k].kind \in {"bullet", "segment", "shield", "bomb"}
       /\ frameLog.kills[k].after =
            IF frameLog.kills[k].mult = maxMultiplier THEN maxMultiplier
            ELSE frameLog.kills[k].mult + 1
  /\ (frameLog.hits > 0 => engine.scoreMultiplier = 1)
  /\ (frameLog.played /\ frameLog.hits = 0 /\ ~frameLog.reset =>
        engine.scoreMultiplier \in {AfterKills(frameLog.before.scoreMultiplier),
                                    AfterKills(frameLog.before.scoreMultiplier - 1)})

\* several kills in a frame that reaches the cap and stays on it
C6_Witness ==
  /\ Len(frameLog.kills) >= 2
  /\ \E k \in DOMAIN frameLog.kills :
       frameLog.kills[k].mult = maxMultiplier /\ frameLog.kills[k].after = maxMultiplier
  /\ \E k \in DOMAIN frameLog.kills : frameLog.kills[k].mult = maxMultiplier - 1
  /\ engine.scoreMultiplier = maxMultiplier

C8_OneLifePerFrame ==
  /\ frameLog.hits <= 1
  /\ (frameLog.played /\ ~frameLog.reset =>
        engine.lives = frameLog.before.lives - frameLog.hits)

\* one life lost in a frame with two enemies and an enemy bullet on the player
C8_Witness ==
  /\ frameLog.hits = 1
  /\ Len(frameLog.playerEnemy) >= 2
  /\ Len(frameLog.playerEnemyBullet) >= 1
  /\ engine.lives = frameLog.before.lives - 1

\* the enemies reported on the player that no bullet of the frame killed
Untouched(id) == \A k \in KillsOfKind("bullet") : frameLog.kills[k].id # id

\* C9: when the collision pass runs with invincibilityTimer > 0, the enemies
\* and enemy bullets on the player have no effect: no hit, no life lost, no
\* contact kill, the score moved by the bomb and bullet rewards only, the
\* enemies on the player alive unless a bullet killed them, the enemy bullets
\* on the player alive
C9_Invincible ==
  frameLog.collided /\ frameLog.invincibility > 0 =>
    /\ frameLog.hits = 0
    /\ (frameLog.reset \/ engine.lives = frameLog.before.lives)
    /\ KillsOfKind("shield") = {}
    /\ engine.score = ScoreBase + SumRewards(frameLog.kills)
    /\ \A k \in DOMAIN frameLog.playerEnemy :
         Untouched(frameLog.playerEnemy[k]) =>
           enemies[EnemyWithId(frameLog.playerEnemy[k])].isAlive
    /\ \A k \in DOMAIN frameLog.playerEnemyBullet :
         enemyBullets[frameLog.playerEnemyBullet[k]].isAlive

\* two enemies and an enemy bullet on an invincible player without a shield
C9_Witness ==
  /\ frameLog.collided
  /\ frameLog.invincibility > 0
  /\ ~frameLog.shield
  /\ Len(frameLog.playerEnemy) >= 2
  /\ Len(frameLog.playerEnemyBullet) >= 1
  /\ frameLog.kills = <<>>

\* C10: when the collision pass runs with the shield active and
\* invincibilityTimer <= 0, every enemy on the player is killed and rewarded
\* with its points times the multiplier of the moment, and the frame takes
\* no life, from enemies or from enemy bullets
C10_Shield ==
  frameLog.collided /\ frameLog.shield /\ frameLog.invincibility <= 0 =>
    /\ frameLog.hits = 0
    /\ engine.lives >= frameLog.before.lives
    /\ engine.score = ScoreBase + SumRewards(frameLog.kills)
    /\ \A k \in DOMAIN frameLog.playerEnemy :
         LET e == enemies[EnemyWithId(frameLog.playerEnemy[k])]
         IN /\ ~e.isAlive
            /\ \E j \in KillsOfKind("shield") :
                 /\ frameLog.kills[j].id = e.id
                 /\ frameLog.kills[j].points = ENEMY_POINTS[e.type]

\* two enemies and an enemy bullet on a shielded player
C10_Witness ==
  /\ frameLog.collided
  /\ frameLog.shield
  /\ frameLog.invincibility <= 0
  /\ Len(frameLog.playerEnemy) >= 2
  /\ Len(frameLog.playerEnemyBullet) >= 1
  /\ Cardinality(KillsOfKind("shield")) = 2
  /\ frameLog.hits = 0

\* the bomb rewards of the frame, in the order they were made
BombKills == SelectSeq(frameLog.kills, LAMBDA k : k.kind = "bomb")

\* C11: a bomb used with a charge takes exactly one charge, leaves no enemy
\* and no enemy bullet of the arena alive (2500 is more than the diagonal of
\* the arena), and adds, for each enemy it kills, the points of its type
\* times the multiplier of that moment to the score
C11_Bomb ==
  /\ Dist2(Pt(0, 0), Pt(ARENA_WIDTH, ARENA_HEIGHT)) <= BOMB_RADIUS * BOMB_RADIUS
  /\ (frameLog.bomb.used =>
        /\ frameLog.bomb.countBefore >= 1
        /\ frameLog.bomb.count = frameLog.bomb.countBefore - 1
        /\ frameLog.bomb.enemiesLeft = 0
        /\ frameLog.bomb.bulletsLeft = 0
        /\ frameLog.bomb.score = frameLog.bomb.scoreBefore + SumRewards(BombKills)
        /\ \A k \in DOMAIN frameLog.bomb.targets :
             \E j \in DOMAIN BombKills :
               /\ BombKills[j].id = frameLog.bomb.targets[k].id
               /\ BombKills[j].points = ENEMY_POINTS[frameLog.bomb.targets[k].type]
        /\ \A j \in DOMAIN BombKills :
             IF j = 1
             THEN BombKills[j].mult \in {frameLog.before.scoreMultiplier,
                                         Max(1, frameLog.before.scoreMultiplier - 1)}
             ELSE BombKills[j].mult = Min(maxMultiplier, BombKills[j - 1].mult + 1))
  /\ (~frameLog.bomb.used /\ frameLog.played /\ ~frameLog.reset =>
        player.bombCount = frameLog.before.bombCount)

\* a bomb that finds three enemies and an enemy bullet alive
C11_Witness ==
  /\ frameLog.bomb.used
  /\ Len(frameLog.bomb.targets) = 3
  /\ frameLog.bomb.bulletsBefore >= 1
  /\ frameLog.bomb.count = 1
  /\ Len(BombKills) = 3

-----------------------------------------------------------------------------
(* The secret cache.  The scenes are the game between the first and the
   second wave, the arena empty, the player next to the border of the cache
   in the bottom left corner with 0 to 3 bombs; the player steps in and out
   of the zone and may use a bomb. *)

CacheStep == 10

CachePositions ==
  {Pt(x, y) : x \in {SECRET_CACHE_END_X - CacheStep, SECRET_CACHE_END_X + CacheStep},
              y \in {ARENA_HEIGHT - SECRET_CACHE_DEPTH - CacheStep,
                     ARENA_HEIGHT - PLAYER_SIZE}}

CacheScene(pos, bombs) ==
  [NewGame EXCEPT
     !.engine = [NewEngine EXCEPT !.gameState = "playing", !.score = 1500,
                                  !.gameTime = 30 * TicksPerSecond,
                                  !.enemiesKilledThisGame = WaveEnemyCount(1),
                                  !.enemyIdCounter = WaveEnemyCount(1),
                                  !.multiplierDecayTimer = 0],
     !.player = [NewPlayer(pos) EXCEPT !.bombCount = bombs],
     !.wave = EndWave([StartNextWave(WaveReset) EXCEPT
                         !.enemiesSpawned = WaveEnemyCount(1), !.enemiesRemaining = 0])]

CacheInit ==
  /\ \E pos \in CachePositions, bombs \in 0..MAX_BOMBS : GameIs(CacheScene(pos, bombs))
  /\ frames = 0
  /\ loop = NewLoop(TRUE)
  /\ NoDrivers

\* frames of one tick: the cache does not read the time
CacheInputs ==
  {[NoInput EXCEPT !.dt = 1, !.bomb = bomb, !.vel = v] :
     bomb \in BOOLEAN,
     v \in {Pt(0, 0), Pt(CacheStep, 0), Pt(0 - CacheStep, 0),
            Pt(0, CacheStep), Pt(0, 0 - CacheStep)}}

CacheFrame ==
  /\ frames < MaxCacheFrames
  /\ \E in \in CacheInputs : RunFrame(in)

CacheNext == CacheFrame

SpecCache == CacheInit /\ [][CacheNext]_vars

InCache ==
  /\ player.pos.x \in 0..SECRET_CACHE_END_X
  /\ player.pos.y >= ARENA_HEIGHT - SECRET_CACHE_DEPTH

\* C12: a playing frame that ends with 0 bombs and the player at x in
\* [0, 150], y >= 1400 - 30 grants exactly 3 bombs; a frame that ends with
\* bombs left, or with the player out of the zone, grants none, so that a
\* player who stays in the zone gets nothing more until the count is 0 again
C12_SecretCache ==
  frameLog.played =>
    /\ (frameLog.cache.bombs = 0 /\ InCache =>
          frameLog.cache.granted = 3 /\ player.bombCount = 3)
    /\ (frameLog.cache.bombs > 0 \/ ~InCache => frameLog.cache.granted = 0)
    /\ player.bombCount = frameLog.cache.bombs + frameLog.cache.granted

\* the last bomb is used in the zone and the cache grants 3 in the same frame
C12_Witness ==
  /\ frameLog.played
  /\ InCache
  /\ frameLog.bomb.used
  /\ frameLog.before.bombCount = 1
  /\ frameLog.cache.bombs = 0
  /\ frameLog.cache.granted = 3

-----------------------------------------------------------------------------
(* The WaveManager driven through its public methods.  It starts as
   constructed, as reset, late in wave 1 (13 of 15 spawned) or between waves
   9 and 10, so that a normal wave and a boss wave both start and end within
   MaxManagerTicks of update time.  The caller reports 0 or 1 live enemies. *)

\* what reset() and the last update() call did: the time and the count passed,
\* the type returned, the update time so far and at the last emission
NoCall == [op |-> "none", dt |-> 0, count |-> 0, emit |-> "none", clock |-> 0, lastEmit |-> 0 - 1]

LateInWave(n, spawned) ==
  [StartNextWave([WaveState(0) EXCEPT !.currentWave = n - 1]) EXCEPT
     !.enemiesSpawned = spawned, !.enemiesRemaining = WaveEnemyCount(n) - spawned]

AfterWave(n) == EndWave(LateInWave(n, WaveEnemyCount(n)))

ManagerStarts == {NewWaveManager, WaveReset, LateInWave(1, 13), AfterWave(9)}

ManagerInit ==
  /\ engine = NewEngine
  /\ player = NewPlayer(Centre)
  /\ bullets = <<>>
  /\ enemies = <<>>
  /\ enemyBullets = <<>>
  /\ powerUps = <<>>
  /\ waveManager \in ManagerStarts
  /\ frameLog = NoCall
  /\ frames = 0
  /\ loop = NewLoop(TRUE)
  /\ LedgerStart
  /\ NoDrivers

ManagerUnchanged ==
  UNCHANGED <<engine, player, bullets, enemies, enemyBullets, powerUps, frames, loop,
              activePowerUps, perpetualPowerUps, grantLog, enemy, enemyLog>>

\* the type the random draw of getNextEnemyToSpawn would return: any type of
\* the wave that is running or about to start
DrawTypes(W) ==
  LET n == IF W.betweenWaves THEN W.currentWave + 1 ELSE W.currentWave
  IN {WaveEnemyTypes(n)[i] : i \in DOMAIN WaveEnemyTypes(n)}

CallWaveUpdate ==
  /\ frameLog.clock < MaxManagerTicks
  /\ \E dt \in 1..DT_CAP, count \in 0..1, type \in DrawTypes(waveManager) :
       LET r == WaveUpdate(waveManager, dt, count, type)
       IN /\ waveManager' = r.wave
          /\ frameLog' = [op |-> "update", dt |-> dt, count |-> count, emit |-> r.emit,
                          clock |-> frameLog.clock + dt,
                          lastEmit |-> IF r.emit = "none" THEN frameLog.lastEmit
                                       ELSE frameLog.clock + dt]
  /\ ManagerUnchanged

CallWaveReset ==
  /\ frameLog.clock < MaxManagerTicks
  /\ waveManager.currentWave >= 10
  /\ waveManager' = WaveReset
  /\ frameLog' = [frameLog EXCEPT !.op = "reset", !.dt = 0, !.count = 0, !.emit = "none"]
  /\ ManagerUnchanged

ManagerNext == CallWaveUpdate \/ CallWaveReset

SpecManager == ManagerInit /\ [][ManagerNext]_vars

\* C13: in an update, the manager leaves betweenWaves exactly when the
\* countdown reaches <= 0, and then currentWave grows by 1 and an enemy is
\* emitted; an enemy is emitted only when the spawnDelay of the wave has
\* gone by in update time since the emission before; the manager returns to
\* betweenWaves only when everything is spawned and the caller reports 0
\* live enemies, with the countdown set to the waveDelay of the wave
C13_WaveStateMachine ==
  [][ frameLog'.op = "update" =>
        /\ waveManager.betweenWaves # waveManager.isActive
        /\ waveManager'.betweenWaves # waveManager'.isActive
        /\ (waveManager.betweenWaves =>
              IF waveManager.nextWaveTime - frameLog'.dt <= 0
              THEN /\ waveManager'.isActive
                   /\ waveManager'.currentWave = waveManager.currentWave + 1
                   /\ frameLog'.emit # "none"
                   /\ waveManager'.enemiesSpawned = 1
              ELSE /\ waveManager'.betweenWaves
                   /\ waveManager'.currentWave = waveManager.currentWave
                   /\ frameLog'.emit = "none")
        /\ (frameLog'.emit # "none" =>
              /\ waveManager'.enemiesSpawned <= WaveEnemyCount(waveManager'.currentWave)
              /\ (frameLog.lastEmit >= 0 =>
                    frameLog'.clock - frameLog.lastEmit
                      >= WaveSpawnDelay(waveManager'.currentWave)))
        /\ (waveManager.isActive /\ waveManager'.betweenWaves =>
              /\ waveManager.enemiesSpawned >= WaveEnemyCount(waveManager.currentWave)
              /\ frameLog'.count = 0
              /\ frameLog'.emit = "none"
              /\ waveManager'.currentWave = waveManager.currentWave
              /\ waveManager'.nextWaveTime = WaveDelay(waveManager.currentWave))
        /\ (waveManager.isActive /\ frameLog'.count > 0 => waveManager'.isActive)
    ]_vars

\* the boss wave has started, emitted its boss, ended on a report of 0 live
\* enemies and left the countdown of wave 10 running
C13_Witness ==
  /\ frameLog.op = "update"
  /\ waveManager.betweenWaves
  /\ waveManager.currentWave = 10
  /\ waveManager.enemiesSpawned = 1
  /\ waveManager.nextWaveTime = WaveDelay(10)
  /\ frameLog.lastEmit > 0

\* C14: for every wave number n >= 0, getWaveConfig(n).enemyTypes is exactly
\* <<boss_hexagon>> if and only if n % 10 = 0 and n > 0, and then enemyCount
\* is n / 10; no other wave has boss_hexagon among its types, and the
\* manager emits a boss exactly in the waves 10, 20, ...
C14_BossWaves ==
  /\ \A n \in 0..MaxWaveNumber :
       LET c == GetWaveConfig(n)
           boss == n % 10 = 0 /\ n > 0
       IN /\ (c.enemyTypes = <<"boss_hexagon">>) <=> boss
          /\ (boss => c.enemyCount * 10 = n)
          /\ (~boss => \A i \in DOMAIN c.enemyTypes : c.enemyTypes[i] # "boss_hexagon")
          /\ c.enemyTypes # <<>>
  /\ (frameLog.op = "update" /\ frameLog.emit # "none" =>
        ((frameLog.emit = "boss_hexagon") <=>
           (waveManager.currentWave % 10 = 0 /\ waveManager.currentWave > 0)))

\* wave 10 has emitted its single boss, wave 11 an enemy of another type
C14_Witness ==
  /\ frameLog.op = "update"
  /\ waveManager.currentWave = 11
  /\ frameLog.emit \notin {"none", "boss_hexagon"}
  /\ GetWaveConfig(10).enemyCount = 1
  /\ frameLog.lastEmit > 0

-----------------------------------------------------------------------------
(* Splitters.  The scenes are scenes of the arena with one enemy, a splitter
   (fresh or already hit once) or a splitter_mini, 300 to the right of the
   player, and one to three bullets of the player that reach it together in
   a frame of one tick; the bullets may be piercing. *)

SplitTargets ==
  {[NewEnemy(Centre.x + 300, Centre.y, "splitter", FirstId) EXCEPT !.health = h] : h \in 1..2}
    \cup {NewEnemy(Centre.x + 300, Centre.y, "splitter_mini", FirstId)}

SplitBullets(n) ==
  [i \in 1..n |-> NewBullet(Pt(Centre.x + 300 - BULLET_SPEED, Centre.y + 10 * (i - 2)),
                            Pt(BULLET_SPEED, 0))]

SplitScene(target, n, piercing, mult) ==
  [Scene(0, FALSE, mult, START_LIVES, 0, FALSE) EXCEPT
     !.enemies = <<target>>,
     !.bullets = SplitBullets(n),
     !.engine.enemyIdCounter = FirstId + 1,
     !.ledger = IF piercing
                THEN AddPowerUp(NewLedger, "piercing", POWERUP_DURATION["piercing"], FALSE)
                ELSE NewLedger]

SplitInit ==
  /\ \E target \in SplitTargets, n \in 1..3, piercing \in BOOLEAN, mult \in SceneMultipliers :
       GameIs(SplitScene(target, n, piercing, mult))
  /\ frames = 0
  /\ loop = NewLoop(TRUE)
  /\ NoDrivers

SplitFrame ==
  /\ frames < MaxSplitFrames
  /\ \E dt \in 1..DT_CAP : RunFrame([NoInput EXCEPT !.dt = dt])

SplitNext == SplitFrame

SpecSplitter == SplitInit /\ [][SplitNext]_vars

RECURSIVE CountSplits(_)
CountSplits(splits) ==
  IF splits = <<>> THEN 0 ELSE Len(Head(splits).positions) + CountSplits(Tail(splits))

\* C15: each takeDamage call of a frame that leaves a splitter with health
\* <= 0 yields exactly 3 split descriptors, and each descriptor becomes one
\* live splitter_mini at its position; the death of a splitter_mini yields
\* none; the descriptors are taken once, no enemy keeps any
C15_SplitterSplits ==
  frameLog.played =>
    /\ \A k \in DOMAIN frameLog.splits :
         LET d == frameLog.splits[k]
         IN /\ Len(d.positions) = IF d.type = "splitter" THEN 3 ELSE 0
            /\ \A i \in DOMAIN d.positions :
                 \E j \in DOMAIN enemies :
                   /\ enemies[j].id = d.firstId + i - 1
                   /\ enemies[j].type = "splitter_mini"
                   /\ enemies[j].pos = d.positions[i]
                   /\ enemies[j].isAlive
                   /\ enemies[j].health = ENEMY_HEALTH["splitter_mini"]
    /\ engine.enemyIdCounter = frameLog.before.enemyIdCounter + CountSplits(frameLog.splits)
    /\ Cardinality({j \in DOMAIN enemies : enemies[j].id >= frameLog.before.enemyIdCounter})
         = CountSplits(frameLog.splits)
    /\ \A j \in DOMAIN enemies : enemies[j].pendingSplits = <<>>

\* a fresh splitter hit by two bullets in one frame: the second kills it and
\* three splitter_mini are in the arena
C15_Witness ==
  /\ frameLog.played
  /\ Len(frameLog.bulletEnemy) = 2
  /\ Len(frameLog.splits) = 1
  /\ frameLog.splits[1].type = "splitter"
  /\ Len(frameLog.splits[1].positions) = 3
  /\ Cardinality({j \in DOMAIN enemies : enemies[j].type = "splitter_mini"}) = 3

-----------------------------------------------------------------------------
(* An enemy of any type, as constructed, hit through takeDamage(1) *)

DamageInit ==
  /\ LedgerStart
  /\ \E type \in EnemyTypes : enemy = NewEnemy(SnakeSpawn.x, SnakeSpawn.y, type, 0)
  /\ enemyLog = [calls |-> 0, returned |-> "none"]
  /\ EngineIdle

CallTakeDamage ==
  /\ enemyLog.calls < MaxHits
  /\ LET r == TakeDamage(enemy, 1)
     IN /\ enemy' = r.enemy
        /\ enemyLog' = [calls |-> enemyLog.calls + 1, returned |-> r.killed]
  /\ UNCHANGED notEnemyVars

DamageNext == CallTakeDamage

SpecDamage == DamageInit /\ [][DamageNext]_vars

\* C16: an enemy of a type with initial health h (50 for boss_hexagon) is
\* alive before the h-th takeDamage(1) call and dead from it on; the calls
\* before the h-th return false and the h-th returns true
C16_HitsToKill ==
  LET h == ENEMY_HEALTH[enemy.type]
  IN /\ ENEMY_HEALTH["boss_hexagon"] = 50
     /\ enemy.isAlive <=> enemyLog.calls < h
     /\ (enemyLog.calls \in 1..(h - 1) => enemyLog.returned = FALSE)
     /\ (enemyLog.calls = h => enemyLog.returned = TRUE)
     /\ enemy.health = h - enemyLog.calls

\* the boss after its 50th hit
C16_Witness ==
  /\ enemy.type = "boss_hexagon"
  /\ enemyLog.calls = 50
  /\ enemyLog.returned = TRUE
  /\ ~enemy.isAlive

-----------------------------------------------------------------------------
(* CollisionSystem.checkCollisions called once on lists the caller chose: two
   enemies of different sizes at the centre, each alive or dead, and two
   bullets, each alive or dead, at distances just under, exactly at and just
   over the sum of the radii, on the axis and off it. *)

CollideEnemyTypes == <<"wanderer", "chaser">>

CollideOffsets ==
  {Pt(BULLET_SIZE + ENEMY_SIZE[CollideEnemyTypes[j]] + d, 0) : j \in 1..2, d \in {-1, 0, 1}}
    \cup {Pt(15, 11), Pt(15, 12)}

CollideBullets ==
  {[NewBullet(Pt(Centre.x - o.x, Centre.y - o.y), Pt(0, 0)) EXCEPT !.isAlive = a] :
     o \in CollideOffsets, a \in BOOLEAN}

CollideEnemies ==
  {[j \in 1..2 |-> [NewEnemy(Centre.x, Centre.y, CollideEnemyTypes[j], FirstId + j)
                      EXCEPT !.isAlive = alive[j]]] : alive \in [1..2 -> BOOLEAN]}

CollideInit ==
  /\ \E b1 \in CollideBullets, b2 \in CollideBullets, es \in CollideEnemies :
       GameIs([NewGame EXCEPT !.bullets = <<b1, b2>>, !.enemies = es])
  /\ frames = 0
  /\ loop = NewLoop(TRUE)
  /\ NoDrivers

CallCheckCollisions ==
  /\ frames = 0
  /\ frameLog' = [frameLog EXCEPT
                    !.collided = TRUE,
                    !.bulletEnemy = CheckCollisions(Game).bulletEnemyCollisions]
  /\ frames' = 1
  /\ UNCHANGED <<engine, player, activePowerUps, perpetualPowerUps, bullets, enemies,
                 enemyBullets, powerUps, waveManager, grantLog, enemy, enemyLog, loop>>

CollideNext == CallCheckCollisions

SpecCollide == CollideInit /\ [][CollideNext]_vars

\* how many times the pair (bullet b, enemy j) is in the result
Reported(b, j) ==
  Cardinality({k \in DOMAIN frameLog.bulletEnemy :
                 frameLog.bulletEnemy[k] = [bullet |-> b, enemy |-> j]})

\* the two circles overlap: centres strictly closer than the sum of the radii
Overlap(b, j) ==
  Dist2(bullets[b].pos, enemies[j].pos)
    < (BULLET_SIZE + GetSize(enemies[j])) * (BULLET_SIZE + GetSize(enemies[j]))

Touching(b, j) ==
  Dist2(bullets[b].pos, enemies[j].pos)
    = (BULLET_SIZE + GetSize(enemies[j])) * (BULLET_SIZE + GetSize(enemies[j]))

\* C17: checkCollisions reports a (bullet, enemy) pair exactly once when both
\* are alive and their centres are strictly closer than the sum of their
\* sizes, and never otherwise: not when the circles only touch or are apart,
\* and not when the bullet or the enemy is dead.
C17_BulletEnemyPairs ==
  frameLog.collided =>
    /\ \A b \in DOMAIN bullets, j \in DOMAIN enemies :
         Reported(b, j) = IF bullets[b].isAlive /\ enemies[j].isAlive /\ Overlap(b, j)
                          THEN 1 ELSE 0
    /\ \A k \in DOMAIN frameLog.bulletEnemy :
         /\ frameLog.bulletEnemy[k].bullet \in DOMAIN bullets
         /\ frameLog.bulletEnemy[k].enemy \in DOMAIN enemies

\* one call that reports an overlapping live pair, leaves out a live pair whose
\* circles exactly touch, and leaves out an overlapping pair with a dead enemy
C17_Witness ==
  /\ frameLog.collided
  /\ \E b \in DOMAIN bullets, j \in DOMAIN enemies : Reported(b, j) = 1
  /\ \E b \in DOMAIN bullets, j \in DOMAIN enemies :
       bullets[b].isAlive /\ enemies[j].isAlive /\ Touching(b, j) /\ Reported(b, j) = 0
  /\ \E b \in DOMAIN bullets, j \in DOMAIN enemies :
       bullets[b].isAlive /\ ~enemies[j].isAlive /\ Overlap(b, j) /\ Reported(b, j) = 0

-----------------------------------------------------------------------------
(* Pausing.  A game in progress with an enemy on the ship; in every frame any
   of Escape, the cursor keys, Enter, BACK on the options screen and the mouse
   button may be pressed. *)

PauseScenes == {Scene(0, FALSE, 1, lives, 0, TRUE) : lives \in SceneLives}

PauseInit ==
  /\ \E G \in PauseScenes : GameIs(G)
  /\ frames = 0
  /\ loop = NewLoop(TRUE)
  /\ NoDrivers

PauseInputs ==
  {[NoInput EXCEPT !.dt = dt, !.pause = pause, !.nav = nav, !.enter = enter,
                   !.back = back, !.firing = firing] :
     dt \in 1..DT_CAP, pause \in BOOLEAN, nav \in {-1, 0, 1}, enter \in BOOLEAN, back \in BOOLEAN,
     firing \in BOOLEAN}

PauseFrame ==
  /\ frames < MaxPauseFrames
  /\ \E in \in PauseInputs : RunFrame(in)

PauseNext == PauseFrame

SpecPause == PauseInit /\ [][PauseNext]_vars

\* score, lives, multiplier, timers, wave state, player and its power-ups,
\* bullets, enemy bullets, enemies and power-ups are what they were
GameplayUnchanged ==
  /\ engine'.score = engine.score
  /\ engine'.lives = engine.lives
  /\ engine'.scoreMultiplier = engine.scoreMultiplier
  /\ engine'.invincibilityTimer = engine.invincibilityTimer
  /\ engine'.multiplierDecayTimer = engine.multiplierDecayTimer
  /\ UNCHANGED <<waveManager, player, activePowerUps, perpetualPowerUps, bullets,
                 enemyBullets, enemies, powerUps>>

\* C18 as stated: in every frame that ends with gameState other than playing,
\* no gameplay state changes.
C18_Original ==
  [][frames' = frames + 1 /\ engine'.gameState # "playing" => GameplayUnchanged]_vars

\* C18: in every frame in which gameState is not playing when update() tests
\* it (after the pause key and the menus), the update phase is skipped and no
\* gameplay state changes: score, lives, multiplier, invincibility and decay
\* timers, wave state, player, bullets, enemy bullets, enemies and power-ups
\* are the same after the frame as before it.  A frame that ends with
\* gameState not playing ran the update phase exactly when the last life was
\* lost in it.
C18_PauseSuspends ==
  [][frames' = frames + 1 =>
       /\ (frameLog'.check # "playing" => GameplayUnchanged /\ ~frameLog'.played)
       /\ (frameLog'.played /\ engine'.gameState # "playing" =>
             /\ engine'.gameState = "gameover"
             /\ engine.lives = 1
             /\ engine'.lives = 0)]_vars

\* a frame was skipped on the options screen with enemies and enemy bullets
\* in the arena
C18_Witness ==
  /\ frames > 0
  /\ frameLog.check = "options"
  /\ ~frameLog.played
  /\ Len(enemies) > 0
  /\ Len(enemyBullets) > 0

\* the frame of the last life ends in gameover after the update phase ran
\* the click on BACK, on the options screen opened from the pause menu, is
\* taken again by the pause overlay of the same frame and resumes the game
C18_RenderResumes ==
  /\ frameLog.check = "paused"
  /\ engine.gameState = "playing"

C18_LastLife ==
  /\ frameLog.played
  /\ engine.gameState = "gameover"
  /\ engine.lives = 0

-----------------------------------------------------------------------------
(* The loop: start(), stop(), and the callbacks the browser runs for the
   engine.  The page calls start() and stop() at any moment between two
   callbacks; the browser resolves the audio initialisation, runs a requested
   animation frame, fires a timeout, in any order.  The game stays in its
   menu. *)

FPS_SAMPLES == 30        \* autoDetectGraphicsQuality waits for 30 measures
FPS_HISTORY == 60        \* fpsHistory keeps the last 60

LoopInit ==
  /\ LedgerStart
  /\ enemy = "none"
  /\ enemyLog = "none"
  /\ engine = NewEngine
  /\ player = NewPlayer(Centre)
  /\ bullets = <<>>
  /\ enemies = <<>>
  /\ enemyBullets = <<>>
  /\ powerUps = <<>>
  /\ waveManager = NewWaveManager
  /\ frameLog = NoFrame
  /\ frames = 0
  /\ \E auto \in BOOLEAN : loop = NewLoop(auto)

LoopOnly == UNCHANGED <<activePowerUps, perpetualPowerUps, grantLog, enemy, enemyLog,
                        engine, player, bullets, enemies, enemyBullets, powerUps,
                        waveManager, frameLog, frames>>

\* the body of gameLoop once isRunning is passed: update and render, then the
\* next animation frame is requested
LoopFrame(L, measured) ==
  [L EXCEPT !.fpsHistory = IF measured THEN Min(@ + 1, FPS_HISTORY) ELSE @,
            !.lastRequest = @ + 1,
            !.requested = @ \cup {L.lastRequest + 1},
            !.animationFrameId = L.lastRequest + 1,
            !.framesAfterStop = IF L.stopped THEN @ + 1 ELSE @]

\* start(): returns at once when running, else suspends at the await
CallStart ==
  /\ loop.starts < MaxStarts
  /\ loop' = IF loop.isRunning THEN [loop EXCEPT !.starts = @ + 1]
             ELSE [loop EXCEPT !.starts = @ + 1, !.isRunning = TRUE,
                               !.awaiting = @ + 1, !.stopped = FALSE]
  /\ LoopOnly

\* start() after the await: the first gameLoop call, with deltaTime 0, then
\* the timeout of the quality detection
AudioReady ==
  /\ loop.awaiting > 0
  /\ frames < MaxLoopFrames
  /\ LET L0 == [loop EXCEPT !.awaiting = @ - 1]
         L1 == IF L0.isRunning THEN LoopFrame(L0, FALSE) ELSE L0
         L2 == IF L1.autoDetectQuality /\ ~L1.performanceTestDone
               THEN [L1 EXCEPT !.timeouts = @ + 1] ELSE L1
     IN /\ loop' = L2
        /\ IF L0.isRunning
           THEN /\ SetGame(GameLoop(Game, [NoInput EXCEPT !.dt = 0]))
                /\ frames' = frames + 1
                /\ UNCHANGED <<grantLog, enemy, enemyLog>>
           ELSE LoopOnly

\* gameLoop run by the browser for a requested animation frame; deltaTime is
\* positive (a measure is pushed) or not
AnimationFrame ==
  /\ frames < MaxLoopFrames
  /\ \E id \in loop.requested, measured \in BOOLEAN, dt \in 0..DT_CAP :
       LET L0 == [loop EXCEPT !.requested = @ \ {id}]
       IN /\ measured <=> dt > 0
          /\ IF L0.isRunning
             THEN /\ loop' = LoopFrame(L0, measured)
                  /\ SetGame(GameLoop(Game, [NoInput EXCEPT !.dt = dt]))
                  /\ frames' = frames + 1
                  /\ UNCHANGED <<grantLog, enemy, enemyLog>>
             ELSE /\ loop' = L0
                  /\ LoopOnly

\* autoDetectGraphicsQuality run by a timeout
Timeout ==
  /\ loop.timeouts > 0
  /\ LET L0 == [loop EXCEPT !.timeouts = @ - 1]
     IN loop' = IF L0.performanceTestDone THEN L0
                ELSE IF L0.fpsHistory < FPS_SAMPLES
                THEN [L0 EXCEPT !.timeouts = @ + 1, !.polls = @ + 1,
                                !.pollsAfterStop = IF L0.stopped THEN @ + 1 ELSE @]
                ELSE [L0 EXCEPT !.performanceTestDone = TRUE]
  /\ loop'.polls <= MaxPolls
  /\ LoopOnly

\* stop()
CallStop ==
  /\ loop' = [loop EXCEPT !.isRunning = FALSE,
                          !.requested = IF loop.animationFrameId # 0
                                        THEN @ \ {loop.animationFrameId} ELSE @,
                          !.animationFrameId = 0,
                          !.stopped = TRUE]
  /\ engine' = SaveStatistics(engine)
  /\ UNCHANGED <<activePowerUps, perpetualPowerUps, grantLog, enemy, enemyLog,
                 player, bullets, enemies, enemyBullets, powerUps, waveManager,
                 frameLog, frames>>

LoopNext == CallStart \/ AudioReady \/ AnimationFrame \/ Timeout \/ CallStop

SpecLoop == LoopInit /\ [][LoopNext]_vars

\* C19: after stop() has returned, and until start() is called again, no
\* frame runs and no callback of the engine is set again, at whatever point of
\* start() the stop() came.  (A timeout set again after stop() finds
\* fpsHistory as short as before, since no frame runs, and is set again at
\* every firing.)
C19_Original ==
  loop.stopped => loop.framesAfterStop = 0 /\ loop.pollsAfterStop = 0

\* the part of C19 on the frames: no update/render frame runs after stop()
C19_NoFrameAfterStop == loop.stopped => loop.framesAfterStop = 0

\* stop() came during the audio initialisation, start() went on after it
C19_StoppedWhileAwaiting ==
  /\ loop.stopped
  /\ loop.awaiting = 0
  /\ loop.starts = 1
  /\ frames = 0
  /\ loop.timeouts > 0

-----------------------------------------------------------------------------
(* PlayerPowerUpState.update *)

\* C20: update(dt) subtracts dt from the remaining time of every
\* non-perpetual entry and removes every entry whose remaining time becomes
\* <= 0, so after an update every remaining non-perpetual entry has a
\* remaining time > 0; a perpetual entry, also one that superseded a temporary
\* timer of its type, is neither decremented nor removed, and update adds no
\* entry and leaves the set of perpetual types alone.
C20_UpdateDecrements ==
  [][\A dt \in 1..MaxDt :
       CallUpdate(dt) =>
         /\ DOMAIN activePowerUps' \subseteq DOMAIN activePowerUps
         /\ perpetualPowerUps' = perpetualPowerUps
         /\ \A T \in DOMAIN activePowerUps :
              IF activePowerUps[T].isPerpetual
              THEN /\ T \in DOMAIN activePowerUps'
                   /\ activePowerUps'[T] = activePowerUps[T]
                   /\ activePowerUps'[T].time = Infinity
              ELSE /\ T \in DOMAIN activePowerUps' <=> activePowerUps[T].time - dt > 0
                   /\ T \in DOMAIN activePowerUps' =>
                        /\ activePowerUps'[T].time = activePowerUps[T].time - dt
                        /\ activePowerUps'[T].time > 0
                        /\ ~activePowerUps'[T].isPerpetual]_vars

\* a perpetual shield that superseded a temporary shield timer has been
\* through updates and is whole, next to a rapidFire timer that updates have
\* brought down to 1
C20_Witness ==
  /\ IsPerpetual(Ledger, "shield")
  /\ grantLog["shield"].granted > 0
  /\ grantLog["shield"].elapsed > 0
  /\ activePowerUps["shield"] = [time |-> Infinity, isPerpetual |-> TRUE]
  /\ "rapidFire" \in DOMAIN activePowerUps
  /\ grantLog["rapidFire"].elapsed > 0
  /\ GetRemainingTime(Ledger, "rapidFire") = 1

-----------------------------------------------------------------------------
(* Bomb charges.  A game in progress with 0 to 3 charges, enemies around the
   ship and, or not, a bomb power-up on it; frames run with Space pressed or
   not, and addBomb / useBomb are also called on the player directly. *)

BombScene(bombs, gift) ==
  [Scene(3, FALSE, 1, START_LIVES, bombs, FALSE) EXCEPT
     !.powerUps = IF gift THEN <<NewPowerUp(Centre, "bomb", FALSE)>> ELSE <<>>]

BombInit ==
  /\ \E bombs \in 0..MAX_BOMBS, gift \in BOOLEAN : GameIs(BombScene(bombs, gift))
  /\ frames = 0
  /\ loop = NewLoop(TRUE)
  /\ NoDrivers

BombFrame ==
  /\ frames < MaxBombFrames
  /\ \E bomb \in BOOLEAN, dt \in 1..DT_CAP : RunFrame([NoInput EXCEPT !.bomb = bomb, !.dt = dt])

CallAddBomb ==
  /\ SetGame([Game EXCEPT
                !.player = AddBomb(@),
                !.log = [NoFrame EXCEPT
                           !.call = [op |-> "addBomb", returned |-> AddBombReturns(player)]]])
  /\ UNCHANGED <<frames, grantLog, enemy, enemyLog, loop>>

CallUseBomb ==
  /\ SetGame([Game EXCEPT
                !.player = PlayerUseBomb(@),
                !.log = [NoFrame EXCEPT
                           !.call = [op |-> "useBomb", returned |-> CanUseBomb(player)]]])
  /\ UNCHANGED <<frames, grantLog, enemy, enemyLog, loop>>

BombNext == BombFrame \/ CallAddBomb \/ CallUseBomb

SpecBombs == BombInit /\ [][BombNext]_vars

\* C21: useBomb with 0 charges returns false and changes nothing, and the
\* bomb key pressed with 0 charges kills nothing and awards no score; addBomb
\* at 3 charges returns false and leaves the count at 3; addBomb and useBomb
\* return true otherwise; the bomb count is in 0..3 in every state.
C21_BombCharges ==
  [][/\ player.bombCount \in 0..MAX_BOMBS
     /\ player'.bombCount \in 0..MAX_BOMBS
     /\ (CallUseBomb =>
           /\ frameLog'.call.returned = (player.bombCount > 0)
           /\ (player.bombCount = 0 => player' = player /\ engine' = engine
                                       /\ enemies' = enemies /\ enemyBullets' = enemyBullets)
           /\ (player.bombCount > 0 => player'.bombCount = player.bombCount - 1))
     /\ (CallAddBomb =>
           /\ frameLog'.call.returned = (player.bombCount < MAX_BOMBS)
           /\ (player.bombCount = MAX_BOMBS => player' = player)
           /\ (player.bombCount < MAX_BOMBS => player'.bombCount = player.bombCount + 1))
     /\ (frames' = frames + 1 /\ frameLog'.bomb.pressed /\ player.bombCount = 0 =>
           /\ ~frameLog'.bomb.used
           /\ \A k \in DOMAIN frameLog'.kills : frameLog'.kills[k].kind # "bomb"
           /\ engine'.score = engine.score + SumRewards(frameLog'.kills)
           /\ frameLog'.bomb.targets = <<>>)]_vars

\* addBomb was refused at 3 charges
C21_Witness ==
  /\ frameLog.call = [op |-> "addBomb", returned |-> FALSE]
  /\ player.bombCount = MAX_BOMBS

\* the bomb key was pressed with no charge and enemies in the arena
C21_PressedEmpty ==
  /\ frameLog.bomb.pressed
  /\ ~frameLog.bomb.used
  /\ frameLog.before.bombCount = 0
  /\ Len(enemies) > 0

-----------------------------------------------------------------------------
(* The Player object driven through fire(currentTime), with respawn() and the
   grants of its ledger between the calls.  Times are whole milliseconds, as
   the frame timestamps of a browser that rounds them; the clock starts well
   after the page was loaded. *)

FireStart == 1000
FireSteps == {20, 40, 60}
FireTypes == {"rapidFire", "doubleShot", "spreadShot"}

\* the observer: the clock, the last call and what it returned (fired: not
\* null; count: the number of spawns), whether rapid fire was active at the call, lastFireTime
\* before it, the time of the last successful fire before the call (-1: none)
\* and of the last successful fire so far
NoFire ==
  [op |-> "none", now |-> FireStart, fired |-> FALSE, count |-> 0, rapid |-> FALSE,
   double |-> FALSE, spread |-> FALSE, lastFireTime |-> 0, previous |-> 0 - 1,
   lastShot |-> 0 - 1]

FireInit ==
  /\ engine = NewEngine
  /\ player = NewPlayer(Centre)
  /\ bullets = <<>>
  /\ enemies = <<>>
  /\ enemyBullets = <<>>
  /\ powerUps = <<>>
  /\ waveManager = NewWaveManager
  /\ frameLog = NoFire
  /\ frames = 0
  /\ loop = NewLoop(TRUE)
  /\ LedgerStart
  /\ NoDrivers

FireOnly == UNCHANGED <<engine, bullets, enemies, enemyBullets, powerUps, waveManager,
                        frames, loop, grantLog, enemy, enemyLog>>

\* time passes between two calls
Wait ==
  /\ \E step \in FireSteps :
       /\ frameLog.now + step <= FireStart + MaxFireTime
       /\ frameLog' = [frameLog EXCEPT !.op = "wait", !.now = @ + step]
  /\ UNCHANGED <<player, activePowerUps, perpetualPowerUps>>
  /\ FireOnly

CallFire ==
  /\ LET r == PlayerFire(player, Ledger, frameLog.now)
     IN /\ player' = r.player
        /\ frameLog' = [frameLog EXCEPT
                          !.op = "fire",
                          !.fired = r.fired,
                          !.count = Len(r.spawns),
                          !.rapid = HasRapidFire(Ledger),
                          !.double = HasDoubleShot(Ledger),
                          !.spread = HasSpreadShot(Ledger),
                          !.lastFireTime = player.lastFireTime,
                          !.previous = frameLog.lastShot,
                          !.lastShot = IF r.fired THEN frameLog.now ELSE @]
  /\ UNCHANGED <<activePowerUps, perpetualPowerUps>>
  /\ FireOnly

\* respawn(x, y), as handlePlayerHit calls it
CallRespawn ==
  /\ LET G == Respawn(Game, Centre)
     IN /\ player' = G.player
        /\ SetLedger(G.ledger)
  /\ frameLog' = [frameLog EXCEPT !.op = "respawn"]
  /\ FireOnly

\* a power-up is collected
CallGrant ==
  /\ \E type \in FireTypes :
       /\ ~IsActive(Ledger, type)
       /\ SetLedger(AddPowerUp(Ledger, type, POWERUP_DURATION[type], FALSE))
  /\ frameLog' = [frameLog EXCEPT !.op = "grant"]
  /\ UNCHANGED player
  /\ FireOnly

FireNext == Wait \/ CallFire \/ CallRespawn \/ CallGrant

SpecFire == FireInit /\ [][FireNext]_vars

\* the cooldown the claim gives for a call
Cooldown == IF frameLog.rapid THEN RAPID_FIRE_MS ELSE FIRE_RATE_MS

\* the number of spawns the claim gives for a successful call
SpawnCount ==
  (IF frameLog.spread THEN 3 ELSE 1) * (IF frameLog.double THEN 2 ELSE 1)

\* C22: fire(t) returns null and leaves lastFireTime unchanged when less than
\* the cooldown (100 ms, 40 ms with rapid fire) has passed since the last
\* successful fire; otherwise it records t and returns 1 spawn (2 with double
\* shot, 3 with spread shot, 6 with both); so two successful shots are never
\* less than one cooldown apart.
C22_Original ==
  frameLog.op = "fire" =>
    /\ (frameLog.previous >= 0 =>
          (~frameLog.fired <=> frameLog.now - frameLog.previous < Cooldown))
    /\ (~frameLog.fired => player.lastFireTime = frameLog.lastFireTime)
    /\ (frameLog.fired =>
          /\ player.lastFireTime = frameLog.now
          /\ frameLog.count = SpawnCount)

\* what fire(t) does hold to: null with lastFireTime untouched, or t recorded
\* and 1, 2, 3 or 6 spawns by the power-ups active
C22_NullOrSpawns ==
  frameLog.op = "fire" =>
    /\ (~frameLog.fired => player.lastFireTime = frameLog.lastFireTime)
    /\ (frameLog.fired =>
          /\ player.lastFireTime = frameLog.now
          /\ frameLog.count = SpawnCount)

\* with rapid fire, a call exactly 40 ms after the last successful fire
\* returns null
C22_NullAtForty ==
  /\ frameLog.op = "fire"
  /\ frameLog.rapid
  /\ frameLog.previous >= 0
  /\ frameLog.now - frameLog.previous = RAPID_FIRE_MS
  /\ ~frameLog.fired

\* a successful fire less than a cooldown after the previous one, respawn()
\* having come between them
C22_ShotAfterRespawn ==
  /\ frameLog.op = "fire"
  /\ frameLog.fired
  /\ frameLog.previous >= 0
  /\ frameLog.now - frameLog.previous < Cooldown

-----------------------------------------------------------------------------
(* The rewards an enemy yields over its presence in the enemies collection *)

\* the kill records of the frame that reward the enemy of this id as a whole
\* (a snake is rewarded segment by segment)
RewardsOf(id) ==
  SelectSeq(frameLog.kills, LAMBDA k : k.id = id /\ k.kind \in {"bullet", "shield", "bomb"})

SplitsOf(id) == CountSplits(SelectSeq(frameLog.splits, LAMBDA d : d.id = id))

\* C23: within a frame no enemy is rewarded twice, a splitter yields at most
\* 3 splitter_mini, and the bomb rewards no enemy that was already dead when
\* it went off
C23_Original ==
  frameLog.played =>
    /\ \A k \in DOMAIN frameLog.kills : Len(RewardsOf(frameLog.kills[k].id)) <= 1
    /\ \A k \in DOMAIN frameLog.splits : SplitsOf(frameLog.splits[k].id) <= 3
    /\ \A k \in DOMAIN BombKills :
         \E t \in DOMAIN frameLog.bomb.targets : frameLog.bomb.targets[t].id = BombKills[k].id

\* a splitter killed twice by the bullets of one frame: two rewards, six minis
C23_KilledTwice ==
  /\ frameLog.played
  /\ \E k \in DOMAIN frameLog.splits :
       /\ frameLog.splits[k].type = "splitter"
       /\ SplitsOf(frameLog.splits[k].id) = 6
       /\ Len(RewardsOf(frameLog.splits[k].id)) = 2

\* the bomb rewards an enemy that a bullet or a contact killed the frame before
C23_BombOnDead ==
  /\ frameLog.bomb.used
  /\ \E k \in DOMAIN BombKills :
       \A t \in DOMAIN frameLog.bomb.targets : frameLog.bomb.targets[t].id # BombKills[k].id


-----------------------------------------------------------------------------
(* Player bullets flying into two enemies that stand side by side *)

PierceTypes == EnemyTypes \ {"snake"}

PierceScene(a, b, n, piercing) ==
  [Scene(0, FALSE, 1, START_LIVES, 0, FALSE) EXCEPT
     !.enemies = <<NewEnemy(Centre.x + 300, Centre.y - 5, a, FirstId),
                   NewEnemy(Centre.x + 300, Centre.y + 5, b, FirstId + 1)>>,
     !.bullets = SplitBullets(n),
     !.engine.enemyIdCounter = FirstId + 2,
     !.ledger = IF piercing
                THEN AddPowerUp(NewLedger, "piercing", POWERUP_DURATION["piercing"], FALSE)
                ELSE NewLedger]

PierceInit ==
  /\ \E a \in PierceTypes, b \in PierceTypes, n \in 1..2, piercing \in BOOLEAN :
       GameIs(PierceScene(a, b, n, piercing))
  /\ frames = 0
  /\ loop = NewLoop(TRUE)
  /\ NoDrivers

PierceFrame ==
  /\ frames < MaxSplitFrames
  /\ \E dt \in 1..DT_CAP : RunFrame([NoInput EXCEPT !.dt = dt])

PierceNext == PierceFrame

SpecPierce == PierceInit /\ [][PierceNext]_vars

\* the reported pairs of the frame in which bullet b damaged an enemy: every
\* pair with an enemy that is no snake (takeDamage is called), and the pairs
\* with a snake of which a segment was destroyed
DamagedBy(b) ==
  {k \in DOMAIN frameLog.bulletEnemy :
     /\ frameLog.bulletEnemy[k].bullet = b
     /\ \E j \in DOMAIN enemies :
          /\ enemies[j].id = frameLog.bulletEnemy[k].enemy
          /\ \/ enemies[j].type # "snake"
             \/ \E r \in DOMAIN frameLog.kills :
                  /\ frameLog.kills[r].kind = "segment"
                  /\ frameLog.kills[r].by = b
                  /\ frameLog.kills[r].id = enemies[j].id}

\* C24: without piercing a player bullet damages at most one enemy or snake
\* segment in a frame
C24_Original ==
  frameLog.collided /\ ~frameLog.piercing =>
    \A k \in DOMAIN frameLog.bulletEnemy :
      Cardinality(DamagedBy(frameLog.bulletEnemy[k].bullet)) <= 1

\* one bullet without piercing has killed two enemies in one frame
C24_TwoKills ==
  /\ frameLog.collided
  /\ ~frameLog.piercing
  /\ \E i, j \in DOMAIN frameLog.kills :
       /\ frameLog.kills[i].by = frameLog.kills[j].by
       /\ frameLog.kills[i].id # frameLog.kills[j].id
       /\ frameLog.kills[i].kind = "bullet"
       /\ frameLog.kills[j].kind = "bullet"


-----------------------------------------------------------------------------
(* The collections at the end of a frame *)

AllAlive(entities) == \A k \in DOMAIN entities : entities[k].isAlive

\* C25: at the end of every frame that ran the update phase none of the four
\* collections contains a dead entity
C25_Original ==
  frameLog.played =>
    /\ AllAlive(bullets)
    /\ AllAlive(enemyBullets)
    /\ AllAlive(enemies)
    /\ AllAlive(powerUps)

\* the frame has ended in the playing state with an enemy killed by a bullet
\* and the bullet that killed it still in their collections
C25_DeadKept ==
  /\ frameLog.played
  /\ engine.gameState = "playing"
  /\ \E k \in DOMAIN frameLog.kills, j \in DOMAIN enemies :
       /\ frameLog.kills[k].kind = "bullet"
       /\ enemies[j].id = frameLog.kills[k].id
       /\ ~enemies[j].isAlive
       /\ frameLog.kills[k].by \in DOMAIN bullets
       /\ ~bullets[frameLog.kills[k].by].isAlive


-----------------------------------------------------------------------------
(* The ledger after a player hit *)

\* C26: every power-up type that was perpetual in the ledger when the player
\* was hit is active and perpetual at the end of the frame of the hit
C26_Original ==
  frameLog.hits > 0 /\ ~frameLog.reset =>
    \A t \in frameLog.perpetualAtHit : IsActive(Ledger, t) /\ IsPerpetual(Ledger, t)

\* a hit that did not end the game, on a player with perpetual rapid fire,
\* after which rapid fire is neither active nor perpetual
C26_PerpetualLost ==
  /\ frameLog.hits = 1
  /\ engine.gameState = "playing"
  /\ "rapidFire" \in frameLog.perpetualAtHit
  /\ ~IsActive(Ledger, "rapidFire")
  /\ ~IsPerpetual(Ledger, "rapidFire")


-----------------------------------------------------------------------------
(* The pause key and the pause menu within one frame *)

\* C27: a frame that starts in the playing state with Escape or P just
\* pressed ends in the paused state and has run no gameplay update
C27_Original ==
  frameLog.started = "playing" /\ frameLog.keys.pause =>
    /\ engine.gameState = "paused"
    /\ ~frameLog.played

\* Escape with the mouse button held and nothing else pressed: the pause menu
\* opened by the key takes the button as the selection of RESUME, and the
\* frame has run the update phase and ends in the playing state
C27_ResumedAtOnce ==
  /\ frameLog.started = "playing"
  /\ frameLog.keys = [pause |-> TRUE, enter |-> FALSE, firing |-> TRUE]
  /\ frameLog.selected = "RESUME"
  /\ frameLog.played
  /\ engine.gameState = "playing"

\* C28: a frame in which MAIN MENU is selected in the pause menu ends in the
\* menu state, and no new game was started in it
C28_Original ==
  frameLog.selected = "MAIN MENU" =>
    /\ engine.gameState = "menu"
    /\ ~frameLog.reset

\* MAIN MENU selected by a click in a frame that started paused: the main menu
\* has taken the same click and started a new game
C28_GameStarted ==
  /\ frameLog.started = "paused"
  /\ frameLog.selected = "MAIN MENU"
  /\ frameLog.keys = [pause |-> FALSE, enter |-> FALSE, firing |-> TRUE]
  /\ frameLog.reset
  /\ engine.gameState = "playing"
  /\ engine.score = 0
  /\ frameLog.before.score > 0

\* MAIN MENU selected by Enter alone: the frame ends in the menu
C28_ByEnter ==
  /\ frameLog.selected = "MAIN MENU"
  /\ frameLog.keys = [pause |-> FALSE, enter |-> TRUE, firing |-> FALSE]
  /\ engine.gameState = "menu"
  /\ ~frameLog.reset


-----------------------------------------------------------------------------
(* The frame loops of one engine *)

\* C29: at most one animation frame is requested and pending for the engine
\* at any time, so that one display refresh runs update at most once
C29_Original == Cardinality(loop.requested) <= 1

\* start(), stop() and start() again were called before the audio of the
\* first start() was ready: both start() calls have launched a loop, and two
\* animation frames are pending while the engine runs
C29_TwoLoops ==
  /\ loop.isRunning
  /\ loop.starts = 2
  /\ loop.awaiting = 0
  /\ Cardinality(loop.requested) = 2
  /\ frames >= 2


-----------------------------------------------------------------------------
(* A boss in the arena, its charge at the spawn over and its first fan 1 to
   3 ticks away, and the player with or without a bomb; the boss's timers run
   with the frames. *)

BossAges == {BOSS_SHOOT_INTERVAL - 3, BOSS_SHOOT_INTERVAL - 2, BOSS_SHOOT_INTERVAL - 1}

BossScene(age, bombs) ==
  [Scene(0, FALSE, 1, START_LIVES, bombs, FALSE) EXCEPT
     !.enemies = <<[NewEnemy(Centre.x + 300, Centre.y, "boss_hexagon", FirstId) EXCEPT
                      !.shootTimer = age, !.teleportTimer = age + CHARGE_TIME,
                      !.chargeTimer = 0, !.isCharging = FALSE]>>,
     !.bullets = <<>>,
     !.engine.enemyIdCounter = FirstId + 1]

BossInit ==
  /\ \E age \in BossAges, bombs \in 0..1 : GameIs(BossScene(age, bombs))
  /\ frames = 0
  /\ loop = NewLoop(TRUE)
  /\ NoDrivers

BossFrame ==
  /\ frames < MaxBossFrames
  /\ \E dt \in 1..DT_CAP, bomb \in BOOLEAN :
       /\ bomb => player.bombCount > 0
       /\ RunFrame([NoInput EXCEPT !.dt = dt, !.bomb = bomb])

BossNext == BossFrame

SpecBoss == BossInit /\ [][BossNext]_vars

\* C30: in every frame the enemy update adds 5 enemy bullets for each fan a
\* boss has fired in it, and no bullet stays queued on an enemy
C30_Original ==
  frameLog.played =>
    /\ frameLog.enemyShots = FAN_SHOTS * frameLog.fans
    /\ \A j \in DOMAIN enemies : enemies[j].pendingBullets = <<>>

\* the frame of a fan: one bullet of the five was added to the enemy bullets,
\* four are still queued on the boss
C30_OneOfFive ==
  /\ frameLog.played
  /\ frameLog.fans = 1
  /\ frameLog.enemyShots = 1
  /\ Len(enemyBullets) = 1
  /\ \E j \in DOMAIN enemies :
       enemies[j].type = "boss_hexagon" /\ Len(enemies[j].pendingBullets) = FAN_SHOTS - 1

\* the fifth bullet of a fan enters the arena four frames after the fan
C30_Delayed ==
  /\ frameLog.played
  /\ frameLog.fans = 0
  /\ frameLog.enemyShots = 1
  /\ Len(enemyBullets) = FAN_SHOTS
  /\ \A j \in DOMAIN enemies : enemies[j].pendingBullets = <<>>

\* a bomb has killed the boss within four frames of the game, that is with
\* bullets of its fan still queued; the dead boss has handed out one more in
\* the enemy loop and was then filtered out with the rest of its queue
C30_Lost ==
  /\ frameLog.played
  /\ frameLog.bomb.used
  /\ frames <= FAN_SHOTS - 1
  /\ frameLog.fans = 0
  /\ frameLog.enemyShots = 1
  /\ enemies = <<>>

-----------------------------------------------------------------------------
(* A boss, as constructed, driven through update() and getPendingBullet() *)

BossSpawn == Pt(Centre.x + 300, Centre.y)
TeleportSpots == {Pt(TELEPORT_MARGIN, TELEPORT_MARGIN),
                  Pt(ARENA_WIDTH - TELEPORT_MARGIN, ARENA_HEIGHT - TELEPORT_MARGIN)}
BossTargets == {Centre, Pt(TELEPORT_MARGIN, TELEPORT_MARGIN)}

\* observer: the calls made, the update time given, the deltaTime of the last
\* update, the teleports and the fans seen
BossTimersInit ==
  /\ LedgerStart
  /\ enemy = NewEnemy(BossSpawn.x, BossSpawn.y, "boss_hexagon", 0)
  /\ enemyLog = [calls |-> 0, elapsed |-> 0, dt |-> 0, teleports |-> 0, fans |-> 0]
  /\ EngineIdle

\* enemy.update(deltaTime, playerPosition) on the boss
CallBossUpdate(dt, playerPos, teleportAt) ==
  /\ enemyLog.elapsed + dt <= MaxBossTicks
  /\ enemy' = IF enemy.isAlive
              THEN UpdateBossHexagon(EnemyUpdate(enemy, enemy.pos), dt, playerPos, teleportAt)
              ELSE enemy
  /\ enemyLog' = [calls |-> enemyLog.calls + 1, elapsed |-> enemyLog.elapsed + dt, dt |-> dt,
                  teleports |-> enemyLog.teleports +
                                  (IF enemy'.teleportTimer = 0 THEN 1 ELSE 0),
                  fans |-> enemyLog.fans +
                             (IF Len(enemy'.pendingBullets) > Len(enemy.pendingBullets)
                              THEN 1 ELSE 0)]
  /\ UNCHANGED notEnemyVars

\* enemy.getPendingBullet() on the boss with bullets queued
CallGetPendingBullet ==
  /\ enemy.pendingBullets # <<>>
  /\ enemy' = GetPendingBullet(enemy, <<>>).enemy
  /\ UNCHANGED <<enemyLog, notEnemyVars>>

BossUpdates ==
  \E dt \in 1..DT_CAP, playerPos \in BossTargets, teleportAt \in TeleportSpots :
    CallBossUpdate(dt, playerPos, teleportAt)

BossTimersNext == BossUpdates \/ CallGetPendingBullet

SpecBossTimers == BossTimersInit /\ [][BossTimersNext]_vars

Queued == Len(enemy'.pendingBullets) > Len(enemy.pendingBullets)
Teleported == enemy.teleportTimer + enemyLog'.dt >= TELEPORT_INTERVAL

\* C31: a new boss is charging; an update queues a fan of 5 only when the
\* boss was not charging, does not teleport and its shoot timer reaches
\* 1.5 s in it; a teleport, made when the teleport timer reaches 3 s, leaves
\* the boss charging for 1 s with the shoot timer at 0; the shoot timer
\* advances only in an update that finds the boss not charging; the position
\* changes only in a teleport
C31_BossCharge ==
  [][BossUpdates =>
       /\ (enemyLog.calls = 0 => enemy.isCharging /\ enemy.chargeTimer = CHARGE_TIME)
       /\ (Queued =>
             /\ ~enemy.isCharging
             /\ ~enemy'.isCharging
             /\ ~Teleported
             /\ enemy.shootTimer + enemyLog'.dt >= BOSS_SHOOT_INTERVAL
             /\ Len(enemy'.pendingBullets) = Len(enemy.pendingBullets) + FAN_SHOTS
             /\ enemy'.shootTimer = 0)
       /\ (Teleported =>
             /\ enemy'.teleportTimer = 0
             /\ enemy'.isCharging
             /\ enemy'.chargeTimer = CHARGE_TIME - enemyLog'.dt
             /\ enemy'.shootTimer = 0
             /\ enemy'.pos \in TeleportSpots)
       /\ (enemy'.shootTimer > enemy.shootTimer => ~enemy.isCharging /\ ~Teleported)
       /\ (enemy.isCharging /\ ~Teleported => enemy'.shootTimer = enemy.shootTimer)
       /\ (~Teleported => enemy'.pos = enemy.pos)]_vars

\* the boss has teleported, charged, and then queued a fan
C31_Witness ==
  /\ enemyLog.teleports >= 1
  /\ enemyLog.fans >= 1
  /\ enemy.pos \in TeleportSpots
  /\ ~enemy.isCharging


-----------------------------------------------------------------------------
(* The arena with the last kill, decay or reset some time ago: the decay
   timer of the multiplier has run since, and has 1 to 4 ticks left. *)

DecayLeft == 1..4
DecayMultipliers == {1, 2, 3}

DecayScene(mult, left, inv) ==
  [Scene(inv, FALSE, mult, START_LIVES, 1, FALSE) EXCEPT
     !.engine.multiplierDecayTimer = left,
     !.log.idle = MULTIPLIER_DECAY_TIME - left]

DecayInit ==
  /\ \E mult \in DecayMultipliers, left \in DecayLeft, inv \in SceneInvincibility :
       GameIs(DecayScene(mult, left, inv))
  /\ frames = 0
  /\ loop = NewLoop(TRUE)
  /\ NoDrivers

DecayFrame ==
  /\ frames < MaxDecayFrames
  /\ \E dt \in 1..DT_CAP, bomb \in BOOLEAN, pause \in BOOLEAN :
       RunFrame([NoInput EXCEPT !.dt = dt, !.bomb = bomb, !.pause = pause])

DecayNext == DecayFrame

SpecDecay == DecayInit /\ [][DecayNext]_vars

\* C32: the decay step of a frame takes exactly 1 off a multiplier above 1,
\* and only in a playing frame that finds at least 3 s of playing time
\* accumulated since the last kill, decay or reset; in every other frame the
\* multiplier is the same after the decay step as before the frame, and a
\* frame that runs no update leaves the multiplier and the idle time alone
C32_MultiplierDecay ==
  /\ (frameLog.decayed =>
        /\ frameLog.played
        /\ frameLog.before.scoreMultiplier > 1
        /\ frameLog.multAfterDecay = frameLog.before.scoreMultiplier - 1
        /\ frameLog.idleAtDecay >= MULTIPLIER_DECAY_TIME)
  /\ (frameLog.played /\ ~frameLog.decayed =>
        frameLog.multAfterDecay = frameLog.before.scoreMultiplier)
  /\ (frames > 0 /\ ~frameLog.played /\ ~frameLog.reset =>
        engine.scoreMultiplier = frameLog.before.scoreMultiplier)
  /\ engine.scoreMultiplier >= 1

\* a multiplier of 3 has decayed to 2 in the second or a later frame of the
\* run, in the frame in which the idle playing time reached 3 s (frames spent
\* on the pause screen do not count)
C32_Witness ==
  /\ frameLog.decayed
  /\ frameLog.idleAtDecay >= MULTIPLIER_DECAY_TIME
  /\ frameLog.idleAtDecay < MULTIPLIER_DECAY_TIME + DT_CAP
  /\ frameLog.before.scoreMultiplier = 3
  /\ frameLog.multAfterDecay = 2
  /\ frames >= 2


-----------------------------------------------------------------------------
(* The keyboard: keydown and keyup events between the frames of a game.  The
   frame reads Tab, Space and Escape from the InputManager.  Observers: the
   keys physically down, the keys that went down since the last frame, the
   number of such presses. *)

Keys == {"tab", " ", "escape"}

KeysInit ==
  /\ \E inv \in SceneInvincibility : GameIs(Scene(inv, FALSE, 1, START_LIVES, 2, FALSE))
  /\ frames = 0
  /\ loop = NewLoop(TRUE)
  /\ NoDrivers

\* a keydown event: a key that was up goes down, or a key held down repeats
KeyDown(key) ==
  /\ key \in frameLog.down \/ frameLog.presses < MaxPresses
  /\ engine' = [engine EXCEPT !.input = HandleKeyDown(@, key)]
  /\ frameLog' = [frameLog EXCEPT
                    !.down = @ \cup {key},
                    !.fresh = IF key \in frameLog.down THEN @ ELSE @ \cup {key},
                    !.presses = IF key \in frameLog.down THEN @ ELSE @ + 1]
  /\ UNCHANGED <<ledgerVars, enemyVars, player, bullets, enemies, enemyBullets, powerUps,
                 waveManager, frames, loop>>

\* a keyup event of a key that is down
KeyUp(key) ==
  /\ key \in frameLog.down
  /\ engine' = [engine EXCEPT !.input = HandleKeyUp(@, key)]
  /\ frameLog' = [frameLog EXCEPT !.down = @ \ {key}]
  /\ UNCHANGED <<ledgerVars, enemyVars, player, bullets, enemies, enemyBullets, powerUps,
                 waveManager, frames, loop>>

\* a frame: update() reads the keys just pressed from the InputManager
KeysFrame ==
  /\ frames < MaxKeyFrames
  /\ RunFrame([NoInput EXCEPT
                 !.pause = "escape" \in engine.input.justPressedKeys,
                 !.tab = "tab" \in engine.input.justPressedKeys,
                 !.bomb = " " \in engine.input.justPressedKeys])

KeysNext == (\E key \in Keys : KeyDown(key)) \/ (\E key \in Keys : KeyUp(key)) \/ KeysFrame

SpecKeys == KeysInit /\ [][KeysNext]_vars

AFrame == frames' = frames + 1

\* C33 as stated: every frame reports exactly the keys pressed since the last
\* frame, takes at most one bomb, and toggles the control mode once when Tab
\* is among them
C33_Original ==
  [][AFrame =>
       /\ frameLog'.seen = frameLog.fresh
       /\ engine'.input.justPressedKeys = {}
       /\ player'.bombCount >= player.bombCount - 1
       /\ ("tab" \in frameLog.fresh => player'.controlMode # player.controlMode)]_vars

\* C33: every frame reports exactly the keys that went from released to
\* pressed since the last frame and leaves no key just pressed, so each such
\* press is reported in one frame, the next; a keydown of a key that is held
\* adds no edge; a frame takes a bomb only when Space is reported, and at most
\* one; the control mode is toggled, once, exactly in the frames that report
\* Tab and run the gameplay update
C33_KeyEdges ==
  [][/\ (AFrame =>
           /\ frameLog'.seen = frameLog.fresh
           /\ engine'.input.justPressedKeys = {}
           /\ player'.bombCount >= player.bombCount - 1
           /\ (player'.bombCount < player.bombCount => " " \in frameLog.fresh)
           /\ (player'.controlMode # player.controlMode
                 <=> "tab" \in frameLog.fresh /\ frameLog'.played)
           /\ frameLog'.toggled = IF "tab" \in frameLog.fresh /\ frameLog'.played THEN 1 ELSE 0)
     /\ \A key \in Keys :
          KeyDown(key) /\ key \in frameLog.down =>
            engine'.input.justPressedKeys = engine.input.justPressedKeys
     /\ engine.input.justPressedKeys = frameLog.fresh
     /\ engine.input.keys = frameLog.down]_vars

\* Space was pressed once and held through two frames, with keydown events
\* repeating: one bomb is gone
C33_Witness ==
  /\ frames >= 2
  /\ frameLog.presses = 1
  /\ " " \in frameLog.down
  /\ frameLog.played
  /\ frameLog.edges = {}
  /\ player.bombCount = 1

\* Tab pressed on the pause screen: the frame has reported it and the control
\* mode is what it was
C33_TabWhilePaused ==
  /\ "tab" \in frameLog.seen
  /\ frameLog.started = "paused"
  /\ ~frameLog.played
  /\ player.controlMode = "absolute"
  /\ engine.input.justPressedKeys = {}


-----------------------------------------------------------------------------
(* The public controls of the engine, called by the page between the frames
   of the arena: pause(), autoPause(), resume(), reset() *)

\* pause()
EnginePause(G) == [G EXCEPT !.engine.gameState = "paused"]

\* autoPause()
AutoPause(G) ==
  IF G.engine.gameState = "playing" THEN [G EXCEPT !.engine.gameState = "paused"] ELSE G

\* resume()
Resume(G) == [G EXCEPT !.engine.gameState = "playing"]

PublicCall(G) ==
  /\ frames < MaxFrames
  /\ SetGame(G)
  /\ UNCHANGED <<frames, grantLog, enemy, enemyLog, loop>>

CallPause == PublicCall(EnginePause(Game))
CallAutoPause == PublicCall(AutoPause(Game))
CallResume == PublicCall(Resume(Game))

PublicNext == ArenaFrame \/ CallReset \/ CallPause \/ CallAutoPause \/ CallResume

SpecPublic == ArenaInit /\ [][PublicNext]_vars

\* C34: the game is never in the playing state with no life left, and the
\* gameover state is left only into the menu or into a new game with 3 lives
\* and score 0
C34_Original ==
  [][/\ (engine'.gameState = "playing" => engine'.lives >= 1)
     /\ (engine.gameState = "gameover" /\ engine'.gameState # "gameover" =>
           \/ engine'.gameState = "menu"
           \/ /\ engine'.gameState = "playing"
              /\ engine'.lives = START_LIVES
              /\ engine'.score = 0)]_vars

\* resume() called on the game-over screen: the game plays on without a life
C34_PlayingWithoutLife ==
  /\ engine.gameState = "playing"
  /\ engine.lives = 0
  /\ ~frameLog.reset

-----------------------------------------------------------------------------
(* High score at the end of a game *)

\* the frame selected MAIN MENU in the pause menu
MenuFromPause == engine.gameState = "menu" /\ frameLog.selected = "MAIN MENU"

GameEnded == engine.gameState = "gameover" \/ MenuFromPause

\* C35: whenever a game has ended (gameover, or menu reached from the pause
\* menu) the displayed high score and the persisted high score are both at
\* least the score of that game, and the persisted high score is at least
\* every entry of the persisted list of best scores
C35_Original ==
  GameEnded =>
    /\ engine.highScore >= engine.score
    /\ engine.storage.highScore >= engine.score
    /\ \A i \in DOMAIN engine.storage.topScores :
         engine.storage.highScore >= engine.storage.topScores[i]

\* the game is over and the displayed high score is under its score
C35_DisplayedBelow == ~(engine.gameState = "gameover" /\ engine.highScore < engine.score)

\* the pause menu led to the main menu and the list of best scores holds a
\* score above the persisted high score
C35_ListAbove ==
  ~(MenuFromPause /\ \E i \in DOMAIN engine.storage.topScores :
                       engine.storage.topScores[i] > engine.storage.highScore)

-----------------------------------------------------------------------------
(* Persisted statistics.  A game in progress (390 enemies killed in 120 s,
   nothing saved yet) runs its frames with the pause key, the menus and the
   mouse; the page may call stop() once, after which no frame runs.  The
   observer counts in killed and timePlayed every kill counted and every unit
   of time played since the first game began. *)

MaxStatFrames == 4

StatsInit == PauseInit

StatsInputs ==
  {[NoInput EXCEPT !.dt = dt, !.pause = pause, !.nav = nav, !.enter = enter,
                   !.firing = firing] :
     dt \in {DT_CAP}, pause \in BOOLEAN, nav \in {0, 1}, enter \in BOOLEAN,
     firing \in BOOLEAN}

StatsFrame ==
  /\ frames < MaxStatFrames
  /\ ~loop.stopped
  /\ \E in \in StatsInputs : RunFrame(in)

StatsStop ==
  /\ ~loop.stopped
  /\ CallStop

StatsNext == StatsFrame \/ StatsStop

SpecStats == StatsInit /\ [][StatsNext]_vars

\* C36: the persisted statistics count each game exactly once: no kill and no
\* time played is saved twice (the persisted totals never exceed what was
\* played), and none is dropped (what is not yet persisted is still in the
\* counters of the current game)
C36_Original ==
  /\ engine.storage.totalEnemiesKilled <= frameLog.killed
  /\ engine.storage.totalEnemiesKilled + engine.enemiesKilledThisGame >= frameLog.killed
  /\ engine.storage.totalTimePlayed <= frameLog.timePlayed
  /\ engine.storage.totalTimePlayed + engine.gameTime >= frameLog.timePlayed

\* the kills of a game are in the persisted total twice
C36_AddedTwice == ~(engine.storage.totalEnemiesKilled > frameLog.killed)

\* a new game has begun and the kills of the game before it are nowhere
C36_Dropped ==
  ~(/\ engine.gameState = "playing"
    /\ engine.storage.totalEnemiesKilled + engine.enemiesKilledThisGame < frameLog.killed)

\* a game ended by RETRY on the game-over screen is counted once
C36_RetryCounted ==
  ~(/\ frameLog.reset /\ frameLog.started = "gameover"
    /\ engine.storage.totalEnemiesKilled = frameLog.killed
    /\ engine.storage.totalEnemiesKilled > 0)

-----------------------------------------------------------------------------
(* Wave progress.  The frames keep running with the mouse button held: the
   player stays at the centre and fires to the right in every frame; every
   enemy spawns at the right edge on the line of fire and stays there, so
   every enemy dies in the end.  A behaviour starts with a new engine (the
   first click starts the game) or in wave 7 with the wave spawned and one
   snake left on the line of fire. *)

MaxProgressWave == 2      \* a new game is followed until this wave starts
MaxProgressFrames == 330  \* frames run

EdgeSpawn == Pt(ARENA_WIDTH - SPAWN_MARGIN, Centre.y)

ProgressScene ==
  [Scene(0, FALSE, 1, START_LIVES, 0, FALSE) EXCEPT
     !.enemies = <<NewEnemy(Centre.x + 400, Centre.y, "snake", FirstId + 2)>>,
     !.bullets = <<>>]

ProgressInit ==
  /\ \/ EngineIdle /\ LedgerStart
     \/ GameIs(ProgressScene) /\ frames = 0 /\ loop = NewLoop(TRUE)
  /\ NoDrivers

ProgressInputs ==
  {[NoInput EXCEPT !.firing = TRUE, !.shot = Pt(1, 0), !.spawnAt = EdgeSpawn,
                   !.spawnType = type] : type \in DrawTypes(waveManager)}

\* the loop runs on: the frame budget is not spent and the wave followed is
\* not reached
LoopRuns ==
  /\ frames < MaxProgressFrames
  /\ waveManager.currentWave < MaxProgressWave \/ waveManager.currentWave = SceneWave

ProgressFrame ==
  /\ LoopRuns
  /\ \E in \in ProgressInputs : RunFrame(in)

\* a step that runs a frame: every frame counts itself in frames
FrameRuns == LoopRuns /\ frames' = frames + 1

ProgressNext == ProgressFrame

SpecProgress == ProgressInit /\ [][ProgressNext]_vars

\* requestAnimationFrame: a frame runs whenever one can run (every step of
\* SpecProgress is a frame, so the frames are the steps that count in frames)
SpecProgressLive == SpecProgress /\ WF_frames(FrameRuns)

NoneAlive == \A j \in DOMAIN enemies : ~enemies[j].isAlive

\* C37: while the frames keep running in the playing state and every enemy
\* dies in the end, every wave ends and the wave after it starts, and a wave
\* does not stay active with all its enemies spawned and none alive
C37_WaveProgress ==
  /\ \A n \in {0, 1, SceneWave} :
       (waveManager.currentWave = n) ~> (waveManager.currentWave = n + 1)
  /\ (BudgetSpent /\ NoneAlive) ~> waveManager.betweenWaves

\* wave 2 has started after the 15 enemies of wave 1 were killed, or wave 8
\* after the snake of wave 7 lost its body and died
C37_Witness ==
  /\ engine.gameState = "playing"
  /\ waveManager.isActive
  /\ \/ waveManager.currentWave = 2 /\ frameLog.killed >= WaveEnemyCount(1)
     \/ waveManager.currentWave = SceneWave + 1

-----------------------------------------------------------------------------
(* The end of bullets.  The player stands near the right wall and may fire
   to the right or to the left; a shooter stands at the left and may shoot;
   one bullet of the player and one enemy bullet are about to reach their
   lifetime in the middle of the arena, and one enemy bullet is about to
   leave the arena by the left wall. *)

MaxBulletFrames == 3

AgedBullet(pos, vel, age) == [NewBullet(pos, vel) EXCEPT !.age = age]

BulletScene ==
  [Scene(0, FALSE, 1, START_LIVES, 0, FALSE) EXCEPT
     !.player.pos = Pt(ARENA_WIDTH - 100, Centre.y),
     !.enemies = <<NewEnemy(100, Centre.y, "shooter", FirstId)>>,
     !.bullets = <<AgedBullet(Pt(Centre.x, 200), Pt(0 - BULLET_SPEED, 0), BULLET_LIFETIME - 3)>>,
     !.enemyBullets =
        <<AgedBullet(Pt(Centre.x, 300), Pt(ENEMY_BULLET_SPEED, 0), ENEMY_BULLET_LIFETIME - 2),
          AgedBullet(Pt(30, 900), Pt(0 - ENEMY_BULLET_SPEED, 0), 10)>>]

BulletsInit ==
  /\ GameIs(BulletScene)
  /\ frames = 0
  /\ loop = NewLoop(TRUE)
  /\ NoDrivers

BulletsInputs ==
  {[NoInput EXCEPT !.dt = dt, !.firing = (shot # Pt(0, 0)), !.shot = shot,
                   !.shooters = shooters] :
     dt \in 1..DT_CAP, shot \in {Pt(0, 0), Pt(1, 0), Pt(0 - 1, 0)},
     shooters \in {{}, {1}}}

BulletsFrame ==
  /\ frames < MaxBulletFrames
  /\ \E in \in BulletsInputs : RunFrame(in)

BulletsNext == BulletsFrame

SpecBullets == BulletsInit /\ [][BulletsNext]_vars

\* what an update makes of a live bullet
EndsRight(recs, lifetime) ==
  \A k \in DOMAIN recs :
    LET b == recs[k].before
        a == recs[k].after
    IN /\ b.isAlive /\ ~b.hitBorder
       /\ a.isAlive = (a.age < lifetime /\ InArena(a.pos))
       /\ a.hitBorder = ~InArena(a.pos)
       /\ a.hitBorder => ~a.isAlive

Survivors(recs) ==
  LET alive == SelectSeq(recs, LAMBDA r : r.after.isAlive)
  IN [k \in 1..Len(alive) |-> alive[k].after]

AliveInside(b, lifetime) ==
  b.isAlive /\ ~b.hitBorder /\ InArena(b.pos) /\ b.age < lifetime

\* C38: a bullet or an enemy bullet is dead after the update in which its
\* age reaches its lifetime or its position leaves the arena, and alive
\* after any other; the border flag is raised exactly when the position left
\* the arena and implies the bullet is dead; the dead bullets are removed in
\* the same frame, so the bullets of the collision pass are the survivors
\* (and the enemy bullets shot in the frame), all alive and inside the arena
C38_BulletEnd ==
  /\ EndsRight(frameLog.updated, BULLET_LIFETIME)
  /\ EndsRight(frameLog.enemyUpdated, ENEMY_BULLET_LIFETIME)
  /\ frameLog.collided =>
       /\ frameLog.atPass.bullets = Survivors(frameLog.updated)
       /\ SubSeq(frameLog.atPass.enemyBullets, 1, Len(Survivors(frameLog.enemyUpdated)))
            = Survivors(frameLog.enemyUpdated)
       /\ \A k \in DOMAIN frameLog.atPass.bullets :
            AliveInside(frameLog.atPass.bullets[k], BULLET_LIFETIME)
       /\ \A k \in DOMAIN frameLog.atPass.enemyBullets :
            AliveInside(frameLog.atPass.enemyBullets[k], ENEMY_BULLET_LIFETIME)
  /\ \A k \in DOMAIN bullets : bullets[k].hitBorder => ~bullets[k].isAlive
  /\ \A k \in DOMAIN enemyBullets : enemyBullets[k].hitBorder => ~enemyBullets[k].isAlive

DiedOfAge(recs) ==
  \E k \in DOMAIN recs : ~recs[k].after.isAlive /\ ~recs[k].after.hitBorder
DiedAtBorder(recs) ==
  \E k \in DOMAIN recs : ~recs[k].after.isAlive /\ recs[k].after.hitBorder

\* a frame in which, of the bullets of the player and of the enemy bullets
\* alike, one reached its lifetime and one left the arena, with bullets of
\* both kinds at the collision pass
C38_Witness ==
  /\ frameLog.collided
  /\ DiedAtBorder(frameLog.updated) /\ DiedOfAge(frameLog.updated)
  /\ DiedAtBorder(frameLog.enemyUpdated) /\ DiedOfAge(frameLog.enemyUpdated)
  /\ frameLog.atPass.bullets # <<>>
  /\ frameLog.atPass.enemyBullets # <<>>

-----------------------------------------------------------------------------
(* Collecting power-ups.  No enemy is in the arena; two extra lives and a
   bomb lie on the player, two shields lie to its right, one step and two
   steps away; the player stays or moves to the right, and the game may be
   paused.  The observer keeps in collected the power-ups collected in the
   frame and in collectedEver the place of every power-up ever collected
   (no two power-ups lie at the same place). *)

MaxCollectFrames == 3
CollectLives == {START_LIVES, MAX_LIVES - 1}

CollectPowerUps ==
  <<NewPowerUp(Centre, "extraLife", FALSE),
    NewPowerUp(Pt(Centre.x + 10, Centre.y), "extraLife", FALSE),
    NewPowerUp(Pt(Centre.x, Centre.y + 10), "bomb", FALSE),
    NewPowerUp(Pt(Centre.x + PlayerSpeed + 10, Centre.y), "shield", FALSE),
    NewPowerUp(Pt(Centre.x + 2 * PlayerSpeed + 10, Centre.y), "shield", FALSE)>>

CollectScene(lives, bombs) ==
  [Scene(0, FALSE, 1, lives, bombs, FALSE) EXCEPT
     !.enemies = <<>>, !.bullets = <<>>, !.powerUps = CollectPowerUps]

CollectInit ==
  /\ \E lives \in CollectLives, bombs \in {0, MAX_BOMBS} : GameIs(CollectScene(lives, bombs))
  /\ frames = 0
  /\ loop = NewLoop(TRUE)
  /\ NoDrivers

CollectInputs ==
  {[NoInput EXCEPT !.dt = dt, !.vel = Pt(vx, 0), !.pause = pause] :
     dt \in 1..DT_CAP, vx \in {0, PlayerSpeed}, pause \in BOOLEAN}

CollectFrame ==
  /\ frames < MaxCollectFrames
  /\ \E in \in CollectInputs : RunFrame(in)

CollectNext == CollectFrame

SpecCollect == CollectInit /\ [][CollectNext]_vars

Places(seq) == {seq[k] : k \in DOMAIN seq}
CollectedOf(type) == Cardinality({k \in DOMAIN frameLog.collected : frameLog.collected[k].type = type})
ShieldsEver ==
  Cardinality({q \in Places(frameLog.collectedEver) :
                 \E k \in DOMAIN CollectPowerUps :
                    CollectPowerUps[k].pos = q /\ CollectPowerUps[k].type = "shield"})

\* C39: each power-up applies its effect at most once (a place is collected
\* once; the lives grow by the extra lives collected, up to 5, the bombs by
\* the bombs collected, up to the maximum, and the shield timer holds no more
\* than one duration a shield collected); a collected power-up was alive when
\* the collision pass reported it, is dead afterwards, and is out of the
\* collection after the next frame played; a second collect() changes nothing
C39_CollectedOnce ==
  /\ Cardinality(Places(frameLog.collectedEver)) = Len(frameLog.collectedEver)
  /\ \A k \in DOMAIN frameLog.collected : frameLog.collected[k].isAlive
  /\ \A j \in DOMAIN powerUps :
       /\ (powerUps[j].pos \in Places(frameLog.collectedEver) => ~powerUps[j].isAlive)
       /\ (frameLog.played /\ ~powerUps[j].isAlive =>
             \E k \in DOMAIN frameLog.collected : frameLog.collected[k].pos = powerUps[j].pos)
       /\ Collect(Collect(powerUps[j])) = Collect(powerUps[j])
  /\ (frameLog.collided =>
       /\ engine.lives = Min(frameLog.before.lives + CollectedOf("extraLife"), MAX_LIVES)
       /\ player.bombCount = Min(frameLog.before.bombCount + CollectedOf("bomb"), MAX_BOMBS))
  /\ GetRemainingTime(Ledger, "shield") <= ShieldsEver * POWERUP_DURATION["shield"]

\* the five power-ups have been collected, the two extra lives in one frame
\* with 4 lives, and the last one collected is still in the collection, dead
C39_Witness ==
  /\ Len(frameLog.collectedEver) = Len(CollectPowerUps)
  /\ engine.lives = MAX_LIVES
  /\ frameLog.collected # <<>>
  /\ \E j \in DOMAIN powerUps : ~powerUps[j].isAlive
  /\ HasShield(Ledger)

-----------------------------------------------------------------------------
(* Drops.  The scenes of the arena with three lives (the wanderer on the
   player is about to be killed by a bullet, and what it drops lies within
   reach of the player), with or without a shield that has 3 ticks left;
   the wanderer drops any power-up or none, perpetual when the draw says so. *)

MaxDropFrames == 3
ShieldLeft == 3

DropScene(inv, left) ==
  LET S == Scene(inv, left > 0, 1, START_LIVES, 0, FALSE)
  IN IF left > 0 THEN [S EXCEPT !.ledger.active["shield"].time = left] ELSE S

DropInit ==
  /\ \E inv \in SceneInvincibility, left \in {0, ShieldLeft} : GameIs(DropScene(inv, left))
  /\ frames = 0
  /\ loop = NewLoop(TRUE)
  /\ NoDrivers

DropInputs ==
  {[NoInput EXCEPT !.dt = dt, !.drop = [spawn |-> spawn, type |-> type, lucky |-> lucky]] :
     dt \in 1..DT_CAP, spawn \in BOOLEAN, type \in PowerUpTypes, lucky \in BOOLEAN}

DropFrame ==
  /\ frames < MaxDropFrames
  /\ \E in \in DropInputs : RunFrame(in)

DropNext == DropFrame

SpecDrops == DropInit /\ [][DropNext]_vars

NeverPerpetual == {t \in PowerUpTypes : ~CAN_BE_PERPETUAL[t]}

ShieldCollected == \E k \in DOMAIN frameLog.collected : frameLog.collected[k].type = "shield"

\* C40: the shield is never perpetual in the ledger of the player, and no
\* power-up drawn or lying in the arena of type shield, extraLife or bomb is
\* perpetual, whatever the draws; the timer of a shield is finite and a frame
\* played takes its deltaTime off it (unless a shield is collected), leaving
\* no shield once nothing is left
C40_ShieldExpires ==
  [][/\ ~IsPerpetual(Ledger, "shield")'
     /\ (HasShield(Ledger) => ~activePowerUps["shield"].isPerpetual)'
     /\ \A k \in DOMAIN powerUps' :
          powerUps'[k].type \in NeverPerpetual => ~powerUps'[k].isPerpetual
     /\ \A k \in DOMAIN frameLog'.drops :
          frameLog'.drops[k].type \in NeverPerpetual => ~frameLog'.drops[k].isPerpetual
     /\ (frameLog'.played /\ HasShield(Ledger) /\ ~ShieldCollected' =>
          LET left == GetRemainingTime(Ledger, "shield")
              dt == engine'.gameTime - engine.gameTime
          IN IF left - dt <= 0 \/ frameLog'.hits > 0 THEN ~HasShield(Ledger)'
             ELSE GetRemainingTime(Ledger, "shield")' = left - dt)]_vars

\* a dropped shield has been collected: the shield it gave runs on a timer,
\* while another effect of the ledger is perpetual
C40_Witness ==
  /\ ShieldCollected
  /\ HasShield(Ledger)
  /\ GetRemainingTime(Ledger, "shield") <= POWERUP_DURATION["shield"]
  /\ perpetualPowerUps # {}

\* the shield of the scene has run out
C40_Expired == ~(frames > 0 /\ ~HasShield(Ledger) /\ frameLog.hits = 0 /\ frameLog.collected = <<>>)

=============================================================================
